---- MODULE Spec2Model ----
(***************************************************************************)
(* PAW3222 optical sensor driver (ZMK): motion-event state machine.        *)
(*                                                                         *)
(* The model follows src/src/paw3222_input.c (work handler, interrupt and  *)
(* timer handlers, idle handling, scroll accumulation, mode resolution),   *)
(* the toggle behaviour and paw32xx_set_resolution / paw32xx_configure in  *)
(* src/unnamed/part_002 and paw32xx_init in src/src/paw3222.c.             *)
(*                                                                         *)
(* Interrupt and timer-expiry handlers run to completion (they preempt the *)
(* work-queue thread), so each is one action.  The work handler runs in a  *)
(* thread and is split at every point where a handler or a toggle can      *)
(* interleave.                                                             *)
(***************************************************************************)
EXTENDS Integers, Sequences, FiniteSets, TLC

VARIABLES
    cfg,                  \* struct paw32xx_config of the device (immutable)
    init_ret,             \* result of paw32xx_init: "not_run", "ok" or an error name
    paw3222_dev,          \* behaviour's global device reference is set (non-NULL)
    motion_cb,            \* the GPIO callback is installed
    current_mode,         \* data->current_mode
    current_cpi,          \* data->current_cpi
    scroll_accumulator,   \* data->scroll_accumulator
    scroll_accumulator_x, \* data->scroll_accumulator_x
    scroll_accumulator_y, \* data->scroll_accumulator_y
    irq_enabled,          \* motion GPIO interrupt configured EDGE_TO_ACTIVE (else DISABLE)
    irq_line,             \* level of the sensor's motion pin: 1 = active, unread motion
    motion_timer,         \* data->motion_timer is running
    motion_work,          \* work queue: the submitted, not yet started items
    paw32xx_idle,         \* static volatile bool paw32xx_idle
    paw32xx_idle_dev,     \* paw32xx_idle_dev has been assigned
    paw32xx_idle_timer,   \* the idle timer is running
    idle_timer_fresh,     \* the idle timer was started less than its period ago
    w,                    \* the running work handler: position and locals
    sleep_req,            \* the last paw3222_set_sleep request: what was asked,
                          \* by which handler, and its result
    motion_in_idle,       \* the motion pin went active since idle was entered
    tog,                  \* the last binding call made through the toggle
                          \* interface: parameter, mode before, result
    reports,              \* input_report_rel calls of the running cycle
    cyc,                  \* what the running cycle has done so far
    cpi_prev,             \* CPI step of the last cycle that resolved a mode:
                          \* "snipe_set" / "snipe_failed" when it resolved
                          \* SNIPE, found the cached CPI different and the
                          \* CPI-set succeeded / failed; "snipe_pair" when it
                          \* resolved SNIPE without a CPI-set right after a
                          \* "snipe_set" cycle; else "none"
    scr                   \* inputs of the last direct process_scroll_input call

vars == <<cfg, init_ret, paw3222_dev, motion_cb, current_mode, current_cpi,
          scroll_accumulator, scroll_accumulator_x, scroll_accumulator_y,
          irq_enabled, irq_line, motion_timer, motion_work, paw32xx_idle,
          paw32xx_idle_dev, paw32xx_idle_timer, idle_timer_fresh, w, sleep_req,
          motion_in_idle, reports, cyc, cpi_prev, tog, scr>>

dataVars == <<current_mode, current_cpi, scroll_accumulator,
              scroll_accumulator_x, scroll_accumulator_y>>

schedVars == <<irq_enabled, motion_timer, motion_work,
               paw32xx_idle, paw32xx_idle_dev, paw32xx_idle_timer, idle_timer_fresh>>

----------------------------------------------------------------------------
(* Integer types and program constants *)

INT16_MAX == 32767

INT16_MIN == -32768

\* conversion of an int to int16_t as the build performs it (modulo 2^16)
ToInt16(v) == ((v + 32768) % 65536) - 32768

\* C integer division: truncates toward zero (divisor > 0)
CDiv(a, b) == IF a >= 0 THEN a \div b ELSE -((-a) \div b)

MAX(a, b) == IF a > b THEN a ELSE b

RES_STEP == 38

RES_MIN == 16 * RES_STEP

RES_MAX == 127 * RES_STEP

\* Kconfig default of the snipe CPI; the Kconfig file is not among the
\* sources, any in-range value serves
CONFIG_PAW3222_SNIPE_CPI == 646

\* enum paw32xx_current_mode and enum paw32xx_input_mode (same order)
PAW32XX_MOVE == 0

PAW32XX_SCROLL == 1

PAW32XX_SCROLL_HORIZONTAL == 2

PAW32XX_SNIPE == 3

PAW32XX_SCROLL_SNIPE == 4

PAW32XX_SCROLL_HORIZONTAL_SNIPE == 5

PAW32XX_BOTHSCROLL == 6

SixModes == {PAW32XX_MOVE, PAW32XX_SCROLL, PAW32XX_SCROLL_HORIZONTAL,
             PAW32XX_SNIPE, PAW32XX_SCROLL_SNIPE,
             PAW32XX_SCROLL_HORIZONTAL_SNIPE}

PAW32XX_SWITCH_LAYER == 0

PAW32XX_SWITCH_TOGGLE == 1

----------------------------------------------------------------------------
(* Configuration: the devicetree instances the model is checked for *)

BaseCfg ==
    [switch_method |-> PAW32XX_SWITCH_TOGGLE, rotation |-> 0,
     scroll_tick |-> 5, snipe_divisor |-> 2, scroll_snipe_divisor |-> 3,
     scroll_snipe_tick |-> 2, res_cpi |-> 1216, snipe_cpi |-> 608,
     power_ctrl |-> FALSE, behavior |-> TRUE,
     snipe_layers |-> <<>>, scroll_layers |-> <<>>,
     scroll_horizontal_layers |-> <<>>, scroll_snipe_layers |-> <<>>,
     scroll_horizontal_snipe_layers |-> <<>>, bothscroll_layers |-> <<>>]

\* toggle switching with the behaviour driver, snipe CPI configured, built
\* without CONFIG_PAW3222_POWER_CTRL
CfgToggle == BaseCfg

\* layer switching with overlapping layer lists, snipe-cpi = <0> in the
\* devicetree (the Kconfig default then applies),
\* sensor mounted upside down, built with CONFIG_PAW3222_POWER_CTRL and
\* without CONFIG_PAW3222_BEHAVIOR.  PAW32XX_INIT fills the five layer
\* lists of the devicetree and nothing else, so bothscroll_layers is the
\* zero of the static initialiser in every instance.
CfgLayer ==
    [BaseCfg EXCEPT !.switch_method = PAW32XX_SWITCH_LAYER,
                    !.rotation = 180, !.snipe_cpi = 0, !.power_ctrl = TRUE,
                    !.behavior = FALSE,
                    !.snipe_layers = <<1, 2>>, !.scroll_layers = <<2>>,
                    !.scroll_horizontal_layers = <<3>>,
                    !.scroll_snipe_layers = <<4>>,
                    !.scroll_horizontal_snipe_layers = <<3, 4>>]

\* a zero snipe divisor: paw32xx_configure rejects it
CfgZeroDivisor == [BaseCfg EXCEPT !.snipe_divisor = 0]

\* a zero scroll snipe divisor: rejected as well
CfgZeroScrollSnipeDivisor == [BaseCfg EXCEPT !.scroll_snipe_divisor = 0]

Configs == {CfgToggle, CfgLayer, CfgZeroDivisor, CfgZeroScrollSnipeDivisor}

\* values of zmk_keymap_highest_layer_active()
Layers == 0 .. 5

\* (dx, dy) samples the cycles of the device model read from the sensor
XYSamples == {<<-5, 5>>, <<0, 0>>}

\* parameters of the mode behaviour binding (3 is an unknown parameter)
Params == 0 .. 3

----------------------------------------------------------------------------
(* Pure functions of paw3222_input.c *)

abs_int16(value) == ToInt16(IF value < 0 THEN -value ELSE value)

add_to_scroll_accumulator_wrap(accumulator, delta) ==
    ToInt16(accumulator + delta)

add_to_scroll_accumulator(accumulator, delta) ==
    LET temp == accumulator + delta
    IN  IF temp > INT16_MAX THEN INT16_MAX
        ELSE IF temp < INT16_MIN THEN INT16_MIN
        ELSE ToInt16(temp)

Rel(code, value, sync) == [code |-> code, value |-> value, sync |-> sync]

\* the accumulator cleared after a tick instead of keeping the remainder
process_scroll_input_reset_on_tick(accumulator, scroll_delta, threshold, is_horizontal) ==
    LET added == add_to_scroll_accumulator(accumulator, scroll_delta)
    IN  IF abs_int16(added) >= threshold
        THEN LET scroll_direction == IF added > 0 THEN 1 ELSE -1
                 input_code == IF is_horizontal THEN "REL_HWHEEL" ELSE "REL_WHEEL"
             IN  [acc |-> 0,
                  added |-> added,
                  events |-> <<Rel(input_code, scroll_direction, TRUE)>>]
        ELSE [acc |-> added, added |-> added, events |-> <<>>]

\* result: the accumulator after the call, the accumulator right after the
\* add, and the reports made
process_scroll_input(accumulator, scroll_delta, threshold, is_horizontal) ==
    LET added == add_to_scroll_accumulator(accumulator, scroll_delta)
    IN  IF abs_int16(added) >= threshold
        THEN LET scroll_direction == IF added > 0 THEN 1 ELSE -1
                 input_code == IF is_horizontal THEN "REL_HWHEEL" ELSE "REL_WHEEL"
             IN  [acc |-> ToInt16(added - scroll_direction * threshold),
                  added |-> added,
                  events |-> <<Rel(input_code, scroll_direction, TRUE)>>]
        ELSE [acc |-> added, added |-> added, events |-> <<>>]

\* the negations without the INT16_MIN test, converted back to int16_t
calculate_scroll_y_no_guard(x, y, rotation) ==
    CASE rotation = 0 -> y
      [] rotation = 90 -> x
      [] rotation = 180 -> ToInt16(-y)
      [] rotation = 270 -> ToInt16(-x)
      [] OTHER -> y

calculate_scroll_y(x, y, rotation) ==
    CASE rotation = 0 -> y
      [] rotation = 90 -> x
      [] rotation = 180 -> IF y = INT16_MIN THEN INT16_MAX ELSE -y
      [] rotation = 270 -> IF x = INT16_MIN THEN INT16_MAX ELSE -x
      [] OTHER -> y

\* for (i = 0; i < len; i++) if (curr_layer == layers[i]) ...
InLayers(curr_layer, layers) ==
    \E i \in 1 .. Len(layers) : layers[i] = curr_layer

\* the layer lists consulted whatever the switch method
get_input_mode_for_current_layer_layers_always(c, mode, curr_layer) ==
    IF InLayers(curr_layer, c.scroll_horizontal_snipe_layers)
         THEN PAW32XX_SCROLL_HORIZONTAL_SNIPE
    ELSE IF InLayers(curr_layer, c.scroll_snipe_layers)
         THEN PAW32XX_SCROLL_SNIPE
    ELSE IF InLayers(curr_layer, c.scroll_horizontal_layers)
         THEN PAW32XX_SCROLL_HORIZONTAL
    ELSE IF InLayers(curr_layer, c.scroll_layers)
         THEN PAW32XX_SCROLL
    ELSE IF InLayers(curr_layer, c.snipe_layers)
         THEN PAW32XX_SNIPE
    ELSE IF c.switch_method # PAW32XX_SWITCH_LAYER /\ mode \in 0 .. 6
         THEN mode
    ELSE PAW32XX_MOVE

\* the vertical lists tested before the horizontal ones
get_input_mode_for_current_layer_vertical_first(c, mode, curr_layer) ==
    IF c.switch_method # PAW32XX_SWITCH_LAYER
    THEN IF mode \in 0 .. 6 THEN mode ELSE PAW32XX_MOVE
    ELSE IF InLayers(curr_layer, c.scroll_snipe_layers)
              THEN PAW32XX_SCROLL_SNIPE
         ELSE IF InLayers(curr_layer, c.scroll_layers)
              THEN PAW32XX_SCROLL
         ELSE IF InLayers(curr_layer, c.scroll_horizontal_snipe_layers)
              THEN PAW32XX_SCROLL_HORIZONTAL_SNIPE
         ELSE IF InLayers(curr_layer, c.scroll_horizontal_layers)
              THEN PAW32XX_SCROLL_HORIZONTAL
         ELSE IF InLayers(curr_layer, c.snipe_layers)
              THEN PAW32XX_SNIPE
         ELSE PAW32XX_MOVE

get_input_mode_for_current_layer(c, mode, curr_layer) ==
    IF c.switch_method # PAW32XX_SWITCH_LAYER
    THEN CASE mode = PAW32XX_SCROLL -> PAW32XX_SCROLL
           [] mode = PAW32XX_SCROLL_HORIZONTAL -> PAW32XX_SCROLL_HORIZONTAL
           [] mode = PAW32XX_SNIPE -> PAW32XX_SNIPE
           [] mode = PAW32XX_SCROLL_SNIPE -> PAW32XX_SCROLL_SNIPE
           [] mode = PAW32XX_SCROLL_HORIZONTAL_SNIPE -> PAW32XX_SCROLL_HORIZONTAL_SNIPE
           [] mode = PAW32XX_BOTHSCROLL -> PAW32XX_BOTHSCROLL
           [] OTHER -> PAW32XX_MOVE
    ELSE IF InLayers(curr_layer, c.scroll_horizontal_snipe_layers)
              THEN PAW32XX_SCROLL_HORIZONTAL_SNIPE
         ELSE IF InLayers(curr_layer, c.scroll_snipe_layers)
              THEN PAW32XX_SCROLL_SNIPE
         ELSE IF InLayers(curr_layer, c.scroll_horizontal_layers)
              THEN PAW32XX_SCROLL_HORIZONTAL
         ELSE IF InLayers(curr_layer, c.scroll_layers)
              THEN PAW32XX_SCROLL
         ELSE IF InLayers(curr_layer, c.snipe_layers)
              THEN PAW32XX_SNIPE
         ELSE IF InLayers(curr_layer, c.bothscroll_layers)
              THEN PAW32XX_BOTHSCROLL
         ELSE PAW32XX_MOVE

\* CPI switching, lines 339-344: the CPI the cycle wants for its mode
target_cpi_snipe_family(c, input_mode) ==
    IF input_mode \in {PAW32XX_SNIPE, PAW32XX_SCROLL_SNIPE,
                       PAW32XX_SCROLL_HORIZONTAL_SNIPE}
    THEN IF c.snipe_cpi > 0 THEN c.snipe_cpi ELSE CONFIG_PAW3222_SNIPE_CPI
    ELSE c.res_cpi

target_cpi(c, input_mode) ==
    IF input_mode = PAW32XX_SNIPE
    THEN IF c.snipe_cpi > 0 THEN c.snipe_cpi ELSE CONFIG_PAW3222_SNIPE_CPI
    ELSE c.res_cpi

\* paw32xx_set_resolution: "-EINVAL" without any register write when the
\* value is out of range, else the result of the register writes
paw32xx_set_resolution(res_cpi, transport_ok) ==
    IF ~(res_cpi >= RES_MIN /\ res_cpi <= RES_MAX) THEN "-EINVAL"
    ELSE IF transport_ok THEN "0" ELSE "-EIO"

\* k_work_submit: a work item that is already queued is not queued again
k_work_submit(queue) ==
    IF Len(queue) > 0 THEN queue ELSE Append(queue, "motion_work")

----------------------------------------------------------------------------
(* Initial state: before paw32xx_init; the static data is zero-filled *)

SleepResults == {"0", "-EIO"}

W0 == [pc |-> "none", val |-> 0, x |-> 0, y |-> 0, scroll_y |-> 0,
       input_mode |-> PAW32XX_MOVE, irq_disabled |-> TRUE]

Cyc0 == [status |-> "none", pin |-> -1, rearmed |-> FALSE, xy |-> "none",
         resolved |-> 0, cpi_target |-> 0, cpi_rc |-> "none", layer |-> -1]

Scr0 == [n |-> 0, before |-> 0, delta |-> 0, threshold |-> 0,
         horizontal |-> FALSE, added |-> 0, start |-> 0, fed |-> 0,
         paid |-> 0, clamped |-> FALSE]

\* op: the kind of the last call; param, dev, from, ret: the last press;
\* p_param, p_dev, p_from, p_ret: the press before it; rel_ret: the last
\* release
Tog0 == [op |-> "none", param |-> -1, dev |-> FALSE, from |-> PAW32XX_MOVE,
         ret |-> "none", p_param |-> -1, p_dev |-> FALSE,
         p_from |-> PAW32XX_MOVE, p_ret |-> "none", rel_ret |-> "none"]

SleepReq(req, by, rc) == [req |-> req, by |-> by, rc |-> rc]

\* everything but the stored mode and the vertical scroll accumulator
ZeroInit(c) ==
    /\ cfg = c
    /\ init_ret = "not_run"
    /\ paw3222_dev = FALSE
    /\ motion_cb = FALSE
    /\ current_cpi = 0
    /\ scroll_accumulator_x = 0
    /\ scroll_accumulator_y = 0
    /\ irq_enabled = FALSE
    /\ irq_line = 0
    /\ motion_timer = FALSE
    /\ motion_work = <<>>
    /\ paw32xx_idle = FALSE
    /\ paw32xx_idle_dev = FALSE
    /\ paw32xx_idle_timer = FALSE
    /\ idle_timer_fresh = FALSE
    /\ w = W0
    /\ sleep_req = SleepReq("none", "none", "none")
    /\ motion_in_idle = FALSE
    /\ tog = Tog0
    /\ reports = <<>>
    /\ cyc = Cyc0
    /\ cpi_prev = "none"
    /\ scr = Scr0

StaticInit(c) == ZeroInit(c) /\ current_mode = PAW32XX_MOVE

InitWith(c) == StaticInit(c) /\ scroll_accumulator = 0

Init == \E c \in Configs : InitWith(c)

----------------------------------------------------------------------------
(* Device initialisation: paw32xx_configure and paw32xx_init *)

\* the register setup without the validation of the divisors
paw32xx_configure_no_validation(c, hw_ok) ==
    IF ~hw_ok THEN "-EIO" ELSE "0"

paw32xx_configure(c, hw_ok) ==
    IF c.snipe_divisor = 0 THEN "-EINVAL"
    ELSE IF c.scroll_snipe_divisor = 0 THEN "-EINVAL"
    ELSE IF ~hw_ok THEN "-EIO"
    ELSE "0"

\* the stage at which the platform makes paw32xx_init fail, if any
InitStages == {"spi", "gpio", "configure", "irq_cfg", "pm", "ok"}

paw32xx_init(stage) ==
    /\ init_ret = "not_run"
    /\ current_cpi' = -1
    /\ scroll_accumulator' = 0
    /\ current_mode' = PAW32XX_MOVE
    /\ IF stage = "spi"
       THEN /\ init_ret' = "-ENODEV"
            /\ UNCHANGED <<paw3222_dev, motion_cb, irq_enabled, irq_line>>
       ELSE /\ paw3222_dev' = cfg.behavior
            /\ IF stage = "gpio"
               THEN /\ init_ret' = "-ENODEV"
                    /\ UNCHANGED <<motion_cb, irq_enabled, irq_line>>
               ELSE LET ret == paw32xx_configure(cfg, stage # "configure")
                    IN  IF ret # "0"
                        THEN /\ init_ret' = ret
                             /\ motion_cb' = FALSE
                             /\ UNCHANGED <<irq_enabled, irq_line>>
                        ELSE /\ irq_line' = 0
                             /\ IF stage = "irq_cfg"
                                THEN /\ init_ret' = "-EIO"
                                     /\ motion_cb' = FALSE
                                     /\ UNCHANGED irq_enabled
                                ELSE IF stage = "pm"
                                THEN /\ init_ret' = "-EIO"
                                     /\ motion_cb' = FALSE
                                     /\ irq_enabled' = FALSE
                                ELSE /\ init_ret' = "ok"
                                     /\ motion_cb' = TRUE
                                     /\ irq_enabled' = TRUE
    /\ UNCHANGED <<cfg, scroll_accumulator_x, scroll_accumulator_y,
                   motion_timer, motion_work, paw32xx_idle, paw32xx_idle_dev,
                   paw32xx_idle_timer, idle_timer_fresh, w, sleep_req, motion_in_idle, reports, cyc,
                   cpi_prev, tog, scr>>

----------------------------------------------------------------------------
(* Mode toggles of the behaviour driver.  Each function reads the global  *)
(* device reference (dev: it is set) and data->current_mode (mode) and     *)
(* gives the mode it leaves and the value it returns.                      *)

ToggleResult(mode, ret) == [mode |-> mode, ret |-> ret]

paw32xx_change_mode(dev, mode, new_mode) ==
    IF ~dev THEN ToggleResult(mode, "-ENODEV")
    ELSE ToggleResult(new_mode, "0")

\* axis toggle wired to the dual-axis scroll mode
paw32xx_move_scroll_toggle_mode_bothscroll(dev, mode) ==
    IF ~dev THEN ToggleResult(mode, "-ENODEV")
    ELSE IF mode \in {PAW32XX_MOVE, PAW32XX_SNIPE}
         THEN paw32xx_change_mode(dev, mode, PAW32XX_BOTHSCROLL)
    ELSE paw32xx_change_mode(dev, mode, PAW32XX_MOVE)

\* axis toggle that keeps the precision sub-state
paw32xx_move_scroll_toggle_mode_keep_snipe(dev, mode) ==
    IF ~dev THEN ToggleResult(mode, "-ENODEV")
    ELSE IF mode = PAW32XX_MOVE
         THEN paw32xx_change_mode(dev, mode, PAW32XX_SCROLL)
    ELSE IF mode = PAW32XX_SNIPE
         THEN paw32xx_change_mode(dev, mode, PAW32XX_SCROLL_SNIPE)
    ELSE IF mode \in {PAW32XX_SCROLL, PAW32XX_SCROLL_HORIZONTAL}
         THEN paw32xx_change_mode(dev, mode, PAW32XX_MOVE)
    ELSE IF mode \in {PAW32XX_SCROLL_SNIPE, PAW32XX_SCROLL_HORIZONTAL_SNIPE}
         THEN paw32xx_change_mode(dev, mode, PAW32XX_SNIPE)
    ELSE ToggleResult(mode, "-ENODEV")

paw32xx_move_scroll_toggle_mode(dev, mode) ==
    IF ~dev THEN ToggleResult(mode, "-ENODEV")
    ELSE IF mode \in {PAW32XX_MOVE, PAW32XX_SNIPE}
         THEN paw32xx_change_mode(dev, mode, PAW32XX_SCROLL)
    ELSE IF mode \in {PAW32XX_SCROLL, PAW32XX_SCROLL_HORIZONTAL,
                      PAW32XX_SCROLL_SNIPE, PAW32XX_SCROLL_HORIZONTAL_SNIPE}
         THEN paw32xx_change_mode(dev, mode, PAW32XX_MOVE)
    ELSE ToggleResult(mode, "-ENODEV")

\* precision toggle that drops the horizontal axis when leaving snipe
paw32xx_normal_snipe_toggle_mode_drop_axis(dev, mode) ==
    IF ~dev THEN ToggleResult(mode, "-ENODEV")
    ELSE CASE mode = PAW32XX_MOVE ->
                  paw32xx_change_mode(dev, mode, PAW32XX_SNIPE)
           [] mode = PAW32XX_SNIPE ->
                  paw32xx_change_mode(dev, mode, PAW32XX_MOVE)
           [] mode = PAW32XX_SCROLL ->
                  paw32xx_change_mode(dev, mode, PAW32XX_SCROLL_SNIPE)
           [] mode = PAW32XX_SCROLL_SNIPE ->
                  paw32xx_change_mode(dev, mode, PAW32XX_SCROLL)
           [] mode = PAW32XX_SCROLL_HORIZONTAL ->
                  paw32xx_change_mode(dev, mode, PAW32XX_SCROLL_HORIZONTAL_SNIPE)
           [] mode = PAW32XX_SCROLL_HORIZONTAL_SNIPE ->
                  paw32xx_change_mode(dev, mode, PAW32XX_SCROLL)
           [] OTHER -> ToggleResult(mode, "-ENODEV")

paw32xx_normal_snipe_toggle_mode(dev, mode) ==
    IF ~dev THEN ToggleResult(mode, "-ENODEV")
    ELSE CASE mode = PAW32XX_MOVE ->
                  paw32xx_change_mode(dev, mode, PAW32XX_SNIPE)
           [] mode = PAW32XX_SNIPE ->
                  paw32xx_change_mode(dev, mode, PAW32XX_MOVE)
           [] mode = PAW32XX_SCROLL ->
                  paw32xx_change_mode(dev, mode, PAW32XX_SCROLL_SNIPE)
           [] mode = PAW32XX_SCROLL_SNIPE ->
                  paw32xx_change_mode(dev, mode, PAW32XX_SCROLL)
           [] mode = PAW32XX_SCROLL_HORIZONTAL ->
                  paw32xx_change_mode(dev, mode, PAW32XX_SCROLL_HORIZONTAL_SNIPE)
           [] mode = PAW32XX_SCROLL_HORIZONTAL_SNIPE ->
                  paw32xx_change_mode(dev, mode, PAW32XX_SCROLL_HORIZONTAL)
           [] OTHER -> ToggleResult(mode, "-ENODEV")

\* direction toggle with an error of its own for the pointer modes
paw32xx_vertical_horizontal_toggle_mode_enotsup(dev, mode) ==
    IF ~dev THEN ToggleResult(mode, "-ENODEV")
    ELSE IF mode = PAW32XX_MOVE \/ mode = PAW32XX_SNIPE
         THEN ToggleResult(mode, "-ENOTSUP")
    ELSE CASE mode = PAW32XX_SCROLL ->
                  paw32xx_change_mode(dev, mode, PAW32XX_SCROLL_HORIZONTAL)
           [] mode = PAW32XX_SCROLL_SNIPE ->
                  paw32xx_change_mode(dev, mode, PAW32XX_SCROLL_HORIZONTAL_SNIPE)
           [] mode = PAW32XX_SCROLL_HORIZONTAL ->
                  paw32xx_change_mode(dev, mode, PAW32XX_SCROLL)
           [] mode = PAW32XX_SCROLL_HORIZONTAL_SNIPE ->
                  paw32xx_change_mode(dev, mode, PAW32XX_SCROLL_SNIPE)
           [] OTHER -> ToggleResult(mode, "-ENODEV")

\* direction toggle without the MOVE / SNIPE guard: the pointer modes enter
\* horizontal scroll
paw32xx_vertical_horizontal_toggle_mode_no_guard(dev, mode) ==
    IF ~dev THEN ToggleResult(mode, "-ENODEV")
    ELSE CASE mode = PAW32XX_MOVE ->
                  paw32xx_change_mode(dev, mode, PAW32XX_SCROLL_HORIZONTAL)
           [] mode = PAW32XX_SNIPE ->
                  paw32xx_change_mode(dev, mode, PAW32XX_SCROLL_HORIZONTAL_SNIPE)
           [] mode = PAW32XX_SCROLL ->
                  paw32xx_change_mode(dev, mode, PAW32XX_SCROLL_HORIZONTAL)
           [] mode = PAW32XX_SCROLL_SNIPE ->
                  paw32xx_change_mode(dev, mode, PAW32XX_SCROLL_HORIZONTAL_SNIPE)
           [] mode = PAW32XX_SCROLL_HORIZONTAL ->
                  paw32xx_change_mode(dev, mode, PAW32XX_SCROLL)
           [] mode = PAW32XX_SCROLL_HORIZONTAL_SNIPE ->
                  paw32xx_change_mode(dev, mode, PAW32XX_SCROLL_SNIPE)
           [] OTHER -> ToggleResult(mode, "-ENODEV")

paw32xx_vertical_horizontal_toggle_mode(dev, mode) ==
    IF ~dev THEN ToggleResult(mode, "-ENODEV")
    ELSE IF mode = PAW32XX_MOVE \/ mode = PAW32XX_SNIPE
         THEN ToggleResult(mode, "-ENODEV")
    ELSE CASE mode = PAW32XX_SCROLL ->
                  paw32xx_change_mode(dev, mode, PAW32XX_SCROLL_HORIZONTAL)
           [] mode = PAW32XX_SCROLL_SNIPE ->
                  paw32xx_change_mode(dev, mode, PAW32XX_SCROLL_HORIZONTAL_SNIPE)
           [] mode = PAW32XX_SCROLL_HORIZONTAL ->
                  paw32xx_change_mode(dev, mode, PAW32XX_SCROLL)
           [] mode = PAW32XX_SCROLL_HORIZONTAL_SNIPE ->
                  paw32xx_change_mode(dev, mode, PAW32XX_SCROLL_SNIPE)
           [] OTHER -> ToggleResult(mode, "-ENODEV")

on_paw32xx_mode_binding_pressed(param1, dev, mode) ==
    CASE param1 = 0 -> paw32xx_move_scroll_toggle_mode(dev, mode)
      [] param1 = 1 -> paw32xx_normal_snipe_toggle_mode(dev, mode)
      [] param1 = 2 -> paw32xx_vertical_horizontal_toggle_mode(dev, mode)
      [] OTHER -> ToggleResult(mode, "-EINVAL")

on_paw32xx_mode_binding_released(param1, dev, mode) ==
    ToggleResult(mode, "0")

\* a mode change that also forgets the cached CPI
binding_pressed_clears_cpi(param1) ==
    /\ cfg.behavior
    /\ current_mode # on_paw32xx_mode_binding_pressed(
                          param1, paw3222_dev, current_mode).mode
    /\ current_mode' = on_paw32xx_mode_binding_pressed(
                           param1, paw3222_dev, current_mode).mode
    /\ current_cpi' = -1
    /\ UNCHANGED <<cfg, init_ret, paw3222_dev, motion_cb,
                   scroll_accumulator, scroll_accumulator_x,
                   scroll_accumulator_y, irq_line, schedVars, w, sleep_req,
                   motion_in_idle, reports, cyc, cpi_prev, tog, scr>>

\* a key press handled while the device runs (the behaviour driver is built
\* with CONFIG_PAW3222_BEHAVIOR only); the caller drops the result
binding_pressed(param1) ==
    /\ cfg.behavior
    /\ current_mode # on_paw32xx_mode_binding_pressed(
                          param1, paw3222_dev, current_mode).mode
    /\ current_mode' = on_paw32xx_mode_binding_pressed(
                           param1, paw3222_dev, current_mode).mode
    /\ UNCHANGED <<cfg, init_ret, paw3222_dev, motion_cb, current_cpi,
                   scroll_accumulator, scroll_accumulator_x,
                   scroll_accumulator_y, irq_line, schedVars, w, sleep_req, motion_in_idle,
                   reports, cyc, cpi_prev, tog, scr>>

----------------------------------------------------------------------------
(* Idle handling and the interrupt / timer handlers *)

\* paw32xx_idle_exit without the work submission
paw32xx_idle_exit_no_work(rc, by) ==
    IF ~paw32xx_idle
    THEN UNCHANGED <<irq_enabled, motion_timer, motion_work, paw32xx_idle,
                     paw32xx_idle_timer, idle_timer_fresh, sleep_req, motion_in_idle>>
    ELSE /\ sleep_req' = IF cfg.power_ctrl THEN SleepReq("wake", by, rc)
                         ELSE sleep_req
         /\ motion_in_idle' = FALSE
         /\ irq_enabled' = TRUE
         /\ motion_timer' = TRUE
         /\ motion_work' = motion_work
         /\ paw32xx_idle' = FALSE
         /\ paw32xx_idle_timer' = TRUE
         /\ idle_timer_fresh' = TRUE

\* rc: result of the sensor wake request (made with CONFIG_PAW3222_POWER_CTRL)
paw32xx_idle_exit(rc, by) ==
    IF ~paw32xx_idle
    THEN UNCHANGED <<irq_enabled, motion_timer, motion_work, paw32xx_idle,
                     paw32xx_idle_timer, idle_timer_fresh, sleep_req, motion_in_idle>>
    ELSE /\ sleep_req' = IF cfg.power_ctrl THEN SleepReq("wake", by, rc)
                         ELSE sleep_req
         /\ motion_in_idle' = FALSE
         /\ irq_enabled' = TRUE
         /\ motion_timer' = TRUE
         /\ motion_work' = k_work_submit(motion_work)
         /\ paw32xx_idle' = FALSE
         /\ paw32xx_idle_timer' = TRUE
         /\ idle_timer_fresh' = TRUE

\* body of the GPIO callback
paw32xx_motion_handler(rc) ==
    IF paw32xx_idle
    THEN paw32xx_idle_exit(rc, "irq")
    ELSE /\ irq_enabled' = FALSE
         /\ motion_timer' = FALSE
         /\ motion_work' = k_work_submit(motion_work)
         /\ UNCHANGED <<paw32xx_idle, paw32xx_idle_timer, idle_timer_fresh,
                        sleep_req, motion_in_idle>>

\* the sensor raises its motion pin while the interrupt is armed: the edge
\* runs the GPIO callback
MotionIrq ==
    /\ init_ret = "ok"
    /\ irq_line = 0
    /\ irq_enabled /\ motion_cb
    /\ irq_line' = 1
    /\ \E rc \in SleepResults : paw32xx_motion_handler(rc)
    /\ UNCHANGED <<cfg, init_ret, paw3222_dev, motion_cb, dataVars,
                   paw32xx_idle_dev, w, reports, cyc, cpi_prev, tog, scr>>

\* the sensor raises its motion pin while the interrupt is disabled: no edge
\* is seen
SensorMotionMasked ==
    /\ init_ret = "ok"
    /\ irq_line = 0
    /\ ~(irq_enabled /\ motion_cb)
    /\ irq_line' = 1
    /\ motion_in_idle' = paw32xx_idle
    /\ UNCHANGED <<cfg, init_ret, paw3222_dev, motion_cb, dataVars, schedVars,
                   w, sleep_req, reports, cyc, cpi_prev, tog, scr>>

paw32xx_motion_timer_handler ==
    /\ motion_timer
    /\ motion_timer' = FALSE
    /\ motion_work' = k_work_submit(motion_work)
    /\ UNCHANGED <<cfg, init_ret, paw3222_dev, motion_cb, dataVars,
                   irq_enabled, irq_line, paw32xx_idle, paw32xx_idle_dev,
                   paw32xx_idle_timer, idle_timer_fresh, w, sleep_req, motion_in_idle, reports, cyc,
                   cpi_prev, tog, scr>>

\* idle timeout that does not enter idle when the sleep request fails
paw32xx_idle_timeout_handler_sleep_fatal ==
    /\ paw32xx_idle_timer
    /\ paw32xx_idle_timer' = FALSE
    /\ idle_timer_fresh' = FALSE
    /\ irq_enabled' = FALSE
    /\ motion_work' = <<>>
    /\ motion_timer' = FALSE
    /\ motion_in_idle' = FALSE
    /\ \E rc \in SleepResults :
          /\ sleep_req' = IF cfg.power_ctrl
                       THEN SleepReq("sleep", "timeout", rc)
                       ELSE sleep_req
          /\ paw32xx_idle' = IF cfg.power_ctrl /\ rc # "0"
                             THEN paw32xx_idle ELSE TRUE
    /\ UNCHANGED <<cfg, init_ret, paw3222_dev, motion_cb, dataVars, irq_line,
                   paw32xx_idle_dev, w, reports, cyc, cpi_prev, tog, scr>>

\* expiry of the (one-shot) idle timer
paw32xx_idle_timeout_handler ==
    /\ paw32xx_idle_timer
    /\ paw32xx_idle_timer' = FALSE
    /\ idle_timer_fresh' = FALSE
    /\ irq_enabled' = FALSE
    /\ motion_work' = <<>>
    /\ motion_timer' = FALSE
    /\ motion_in_idle' = FALSE
    /\ \E rc \in SleepResults :
          sleep_req' = IF cfg.power_ctrl
                       THEN SleepReq("sleep", "timeout", rc)
                       ELSE sleep_req
    /\ paw32xx_idle' = TRUE
    /\ UNCHANGED <<cfg, init_ret, paw3222_dev, motion_cb, dataVars, irq_line,
                   paw32xx_idle_dev, w, reports, cyc, cpi_prev, tog, scr>>

----------------------------------------------------------------------------
(* paw32xx_motion_work_handler, one action per interleaving point *)

workFrame == <<cfg, init_ret, paw3222_dev, motion_cb, tog, scr>>

\* the work queue thread takes the queued item and enters the handler
work_start ==
    /\ motion_work # <<>>
    /\ w.pc = "none"
    /\ motion_work' = Tail(motion_work)
    /\ w' = [W0 EXCEPT !.pc = "read_motion"]
    /\ UNCHANGED <<workFrame, dataVars, irq_enabled, irq_line, motion_timer,
                   paw32xx_idle, paw32xx_idle_dev, paw32xx_idle_timer, idle_timer_fresh,
                   sleep_req, motion_in_idle, reports, cyc, cpi_prev>>

\* line 297: paw32xx_read_reg(dev, PAW32XX_MOTION, &val); the motion bit is
\* set while the sensor holds unread motion
work_read_motion ==
    /\ w.pc = "read_motion"
    /\ \E ok \in BOOLEAN :
          IF ~ok
          THEN /\ w' = [w EXCEPT !.pc = "cleanup"]
               /\ cyc' = [cyc EXCEPT !.status = "fail"]
          ELSE /\ w' = [w EXCEPT !.val = irq_line,
                                 !.pc = IF irq_line = 0 THEN "rearm"
                                        ELSE "read_xy"]
               /\ cyc' = [cyc EXCEPT !.status = IF irq_line = 0 THEN "clear"
                                                ELSE "set"]
    /\ UNCHANGED <<workFrame, dataVars, schedVars, irq_line, sleep_req, motion_in_idle,
                   reports, cpi_prev>>

\* the no-motion branch without gpio_pin_interrupt_configure_dt
work_rearm_no_enable ==
    /\ w.pc = "rearm"
    /\ w' = [w EXCEPT !.irq_disabled = FALSE, !.pc = "pin"]
    /\ cyc' = [cyc EXCEPT !.rearmed = TRUE]
    /\ UNCHANGED <<workFrame, dataVars, schedVars, irq_line, sleep_req,
                   motion_in_idle, reports, cpi_prev>>

\* lines 304-305: the motion bit is clear, the interrupt is re-armed
work_rearm ==
    /\ w.pc = "rearm"
    /\ irq_enabled' = TRUE
    /\ w' = [w EXCEPT !.irq_disabled = FALSE, !.pc = "pin"]
    /\ cyc' = [cyc EXCEPT !.rearmed = TRUE]
    /\ UNCHANGED <<workFrame, dataVars, irq_line, motion_timer, motion_work,
                   paw32xx_idle, paw32xx_idle_dev, paw32xx_idle_timer, idle_timer_fresh,
                   sleep_req, motion_in_idle, reports, cpi_prev>>

\* the pin check dropped: the cycle always goes on to read the deltas
work_check_pin_always_read ==
    /\ w.pc = "pin"
    /\ w' = [w EXCEPT !.pc = "read_xy"]
    /\ cyc' = [cyc EXCEPT !.pin = irq_line]
    /\ UNCHANGED <<workFrame, dataVars, schedVars, irq_line, sleep_req, motion_in_idle,
                   reports, cpi_prev>>

\* lines 306-308: return when the motion pin reads inactive
work_check_pin ==
    /\ w.pc = "pin"
    /\ w' = [w EXCEPT !.pc = IF irq_line = 0 THEN "done" ELSE "read_xy"]
    /\ cyc' = [cyc EXCEPT !.pin = irq_line]
    /\ UNCHANGED <<workFrame, dataVars, schedVars, irq_line, sleep_req, motion_in_idle,
                   reports, cpi_prev>>

\* lines 311-315: paw32xx_read_xy; reading the deltas clears the sensor's
\* accumulators and releases the motion pin
work_read_xy ==
    /\ w.pc = "read_xy"
    /\ \E ok \in BOOLEAN :
          IF ~ok
          THEN /\ w' = [w EXCEPT !.pc = "cleanup"]
               /\ cyc' = [cyc EXCEPT !.xy = "fail"]
               /\ UNCHANGED irq_line
          ELSE \E xy \in XYSamples :
                  /\ w' = [w EXCEPT !.x = xy[1], !.y = xy[2],
                                    !.pc = "idle_wake"]
                  /\ cyc' = [cyc EXCEPT !.xy = "ok"]
                  /\ irq_line' = 0
    /\ UNCHANGED <<workFrame, dataVars, schedVars, sleep_req, motion_in_idle, reports,
                   cpi_prev>>

\* the wake-up test without the assignment of paw32xx_idle_dev
work_idle_wake_no_dev ==
    /\ w.pc = "idle_wake"
    /\ UNCHANGED paw32xx_idle_dev
    /\ \E rc \in SleepResults : paw32xx_idle_exit(rc, "work")
    /\ w' = [w EXCEPT !.pc = "resolve"]
    /\ UNCHANGED <<workFrame, dataVars, irq_line, reports, cyc, cpi_prev>>

\* lines 319-324: paw32xx_idle_dev = dev; wake up first when idle
work_idle_wake ==
    /\ w.pc = "idle_wake"
    /\ paw32xx_idle_dev' = TRUE
    /\ \E rc \in SleepResults : paw32xx_idle_exit(rc, "work")
    /\ w' = [w EXCEPT !.pc = "resolve"]
    /\ UNCHANGED <<workFrame, dataVars, irq_line, reports, cyc, cpi_prev>>

\* what the CPI step of a cycle leaves in cpi_prev
CpiOutcome(input_mode, rc) ==
    IF input_mode # PAW32XX_SNIPE THEN "none"
    ELSE IF rc = "none"
         THEN IF cpi_prev = "snipe_set" THEN "snipe_pair" ELSE "none"
    ELSE IF rc = "0" THEN "snipe_set"
    ELSE "snipe_failed"

\* the CPI step without the comparison against the cached value
cpi_switch_unconditional(c, input_mode, cached_cpi, transport_ok) ==
    LET target == target_cpi(c, input_mode)
        ret == paw32xx_set_resolution(target, transport_ok)
    IN  [cpi |-> IF ret = "0" THEN target ELSE cached_cpi,
         target |-> target, rc |-> ret]

\* the CPI step caching the target whatever paw32xx_set_resolution returns
cpi_switch_cache_always(c, input_mode, cached_cpi, transport_ok) ==
    LET target == target_cpi(c, input_mode)
    IN  IF cached_cpi # target
        THEN [cpi |-> target, target |-> target,
              rc |-> paw32xx_set_resolution(target, transport_ok)]
        ELSE [cpi |-> cached_cpi, target |-> target, rc |-> "none"]

\* lines 338-352, CPI switching: the cached CPI after the step and the
\* result of paw32xx_set_resolution ("none" when it is not called)
cpi_switch(c, input_mode, cached_cpi, transport_ok) ==
    LET target == target_cpi(c, input_mode)
    IN  IF cached_cpi # target
        THEN LET ret == paw32xx_set_resolution(target, transport_ok)
             IN  [cpi |-> IF ret = "0" THEN target ELSE cached_cpi,
                  target |-> target, rc |-> ret]
        ELSE [cpi |-> cached_cpi, target |-> target, rc |-> "none"]

\* lines 326-352: restart the idle timer, compute scroll_y, resolve the
\* input mode (the highest active layer is read only under layer switching)
\* and switch the CPI
work_resolve_mode ==
    /\ w.pc = "resolve"
    /\ paw32xx_idle_timer' = TRUE
    /\ idle_timer_fresh' = TRUE
    /\ \E curr_layer \in IF cfg.switch_method = PAW32XX_SWITCH_LAYER
                         THEN Layers ELSE {0},
          transport_ok \in BOOLEAN :
          LET input_mode == get_input_mode_for_current_layer(
                                cfg, current_mode, curr_layer)
              sw == cpi_switch(cfg, input_mode, current_cpi, transport_ok)
          IN  /\ w' = [w EXCEPT
                         !.scroll_y = calculate_scroll_y(w.x, w.y, cfg.rotation),
                         !.input_mode = input_mode,
                         !.pc = "dispatch"]
              /\ current_cpi' = sw.cpi
              /\ cpi_prev' = CpiOutcome(input_mode, sw.rc)
              /\ cyc' = [cyc EXCEPT !.resolved = @ + 1,
                                    !.cpi_target = sw.target,
                                    !.cpi_rc = sw.rc]
    /\ UNCHANGED <<workFrame, current_mode, scroll_accumulator,
                   scroll_accumulator_x, scroll_accumulator_y, irq_enabled,
                   irq_line, motion_timer, motion_work, paw32xx_idle,
                   paw32xx_idle_dev, sleep_req, motion_in_idle, reports>>

\* SNIPE dividing with rounding toward minus infinity
dispatch_floor_division(c, input_mode, x, y, scroll_y, acc, acc_x, acc_y) ==
    LET keep == [acc |-> acc, acc_x |-> acc_x, acc_y |-> acc_y]
    IN  CASE input_mode = PAW32XX_MOVE ->
               [keep EXCEPT !.acc = acc] @@
               [events |-> <<Rel("REL_X", x, FALSE), Rel("REL_Y", y, TRUE)>>]
          [] input_mode = PAW32XX_SNIPE ->
               LET divisor == MAX(1, c.snipe_divisor)
               IN  keep @@
                   [events |-> <<Rel("REL_X", x \div divisor, FALSE),
                                 Rel("REL_Y", y \div divisor, TRUE)>>]
          [] input_mode = PAW32XX_SCROLL ->
               LET r == process_scroll_input(acc, scroll_y, c.scroll_tick, FALSE)
               IN  [keep EXCEPT !.acc = r.acc] @@ [events |-> r.events]
          [] input_mode = PAW32XX_SCROLL_HORIZONTAL ->
               LET r == process_scroll_input(acc, scroll_y, c.scroll_tick, TRUE)
               IN  [keep EXCEPT !.acc = r.acc] @@ [events |-> r.events]
          [] input_mode = PAW32XX_SCROLL_SNIPE ->
               LET divisor == MAX(1, c.scroll_snipe_divisor)
                   snipe_scroll_y == ToInt16(CDiv(scroll_y, divisor))
                   r == process_scroll_input(acc, snipe_scroll_y,
                                             c.scroll_snipe_tick, FALSE)
               IN  [keep EXCEPT !.acc = r.acc] @@ [events |-> r.events]
          [] input_mode = PAW32XX_SCROLL_HORIZONTAL_SNIPE ->
               LET divisor == MAX(1, c.scroll_snipe_divisor)
                   snipe_scroll_y == ToInt16(CDiv(scroll_y, divisor))
                   r == process_scroll_input(acc, snipe_scroll_y,
                                             c.scroll_snipe_tick, TRUE)
               IN  [keep EXCEPT !.acc = r.acc] @@ [events |-> r.events]
          [] input_mode = PAW32XX_BOTHSCROLL ->
               LET scroll_x == calculate_scroll_y(y, x, c.rotation)
                   rx == process_scroll_input(acc_x, scroll_x, c.scroll_tick, TRUE)
                   ry == process_scroll_input(acc_y, scroll_y, c.scroll_tick, FALSE)
               IN  [keep EXCEPT !.acc_x = rx.acc, !.acc_y = ry.acc] @@
                   [events |-> rx.events \o ry.events]
          [] OTHER -> keep @@ [events |-> <<>>]

\* the scroll snipe modes accumulating against scroll_tick
dispatch_scroll_tick_only(c, input_mode, x, y, scroll_y, acc, acc_x, acc_y) ==
    LET keep == [acc |-> acc, acc_x |-> acc_x, acc_y |-> acc_y]
    IN  CASE input_mode = PAW32XX_MOVE ->
               [keep EXCEPT !.acc = acc] @@
               [events |-> <<Rel("REL_X", x, FALSE), Rel("REL_Y", y, TRUE)>>]
          [] input_mode = PAW32XX_SNIPE ->
               LET divisor == MAX(1, c.snipe_divisor)
               IN  keep @@
                   [events |-> <<Rel("REL_X", ToInt16(CDiv(x, divisor)), FALSE),
                                 Rel("REL_Y", ToInt16(CDiv(y, divisor)), TRUE)>>]
          [] input_mode = PAW32XX_SCROLL ->
               LET r == process_scroll_input(acc, scroll_y, c.scroll_tick, FALSE)
               IN  [keep EXCEPT !.acc = r.acc] @@ [events |-> r.events]
          [] input_mode = PAW32XX_SCROLL_HORIZONTAL ->
               LET r == process_scroll_input(acc, scroll_y, c.scroll_tick, TRUE)
               IN  [keep EXCEPT !.acc = r.acc] @@ [events |-> r.events]
          [] input_mode = PAW32XX_SCROLL_SNIPE ->
               LET divisor == MAX(1, c.scroll_snipe_divisor)
                   snipe_scroll_y == ToInt16(CDiv(scroll_y, divisor))
                   r == process_scroll_input(acc, snipe_scroll_y,
                                             c.scroll_tick, FALSE)
               IN  [keep EXCEPT !.acc = r.acc] @@ [events |-> r.events]
          [] input_mode = PAW32XX_SCROLL_HORIZONTAL_SNIPE ->
               LET divisor == MAX(1, c.scroll_snipe_divisor)
                   snipe_scroll_y == ToInt16(CDiv(scroll_y, divisor))
                   r == process_scroll_input(acc, snipe_scroll_y,
                                             c.scroll_tick, TRUE)
               IN  [keep EXCEPT !.acc = r.acc] @@ [events |-> r.events]
          [] input_mode = PAW32XX_BOTHSCROLL ->
               LET scroll_x == calculate_scroll_y(y, x, c.rotation)
                   rx == process_scroll_input(acc_x, scroll_x, c.scroll_tick, TRUE)
                   ry == process_scroll_input(acc_y, scroll_y, c.scroll_tick, FALSE)
               IN  [keep EXCEPT !.acc_x = rx.acc, !.acc_y = ry.acc] @@
                   [events |-> rx.events \o ry.events]
          [] OTHER -> keep @@ [events |-> <<>>]

\* the dual-axis mode transforming (x, y) for both axes
dispatch_no_swap(c, input_mode, x, y, scroll_y, acc, acc_x, acc_y) ==
    LET keep == [acc |-> acc, acc_x |-> acc_x, acc_y |-> acc_y]
    IN  CASE input_mode = PAW32XX_MOVE ->
               [keep EXCEPT !.acc = acc] @@
               [events |-> <<Rel("REL_X", x, FALSE), Rel("REL_Y", y, TRUE)>>]
          [] input_mode = PAW32XX_SNIPE ->
               LET divisor == MAX(1, c.snipe_divisor)
               IN  keep @@
                   [events |-> <<Rel("REL_X", ToInt16(CDiv(x, divisor)), FALSE),
                                 Rel("REL_Y", ToInt16(CDiv(y, divisor)), TRUE)>>]
          [] input_mode = PAW32XX_SCROLL ->
               LET r == process_scroll_input(acc, scroll_y, c.scroll_tick, FALSE)
               IN  [keep EXCEPT !.acc = r.acc] @@ [events |-> r.events]
          [] input_mode = PAW32XX_SCROLL_HORIZONTAL ->
               LET r == process_scroll_input(acc, scroll_y, c.scroll_tick, TRUE)
               IN  [keep EXCEPT !.acc = r.acc] @@ [events |-> r.events]
          [] input_mode = PAW32XX_SCROLL_SNIPE ->
               LET divisor == MAX(1, c.scroll_snipe_divisor)
                   snipe_scroll_y == ToInt16(CDiv(scroll_y, divisor))
                   r == process_scroll_input(acc, snipe_scroll_y,
                                             c.scroll_snipe_tick, FALSE)
               IN  [keep EXCEPT !.acc = r.acc] @@ [events |-> r.events]
          [] input_mode = PAW32XX_SCROLL_HORIZONTAL_SNIPE ->
               LET divisor == MAX(1, c.scroll_snipe_divisor)
                   snipe_scroll_y == ToInt16(CDiv(scroll_y, divisor))
                   r == process_scroll_input(acc, snipe_scroll_y,
                                             c.scroll_snipe_tick, TRUE)
               IN  [keep EXCEPT !.acc = r.acc] @@ [events |-> r.events]
          [] input_mode = PAW32XX_BOTHSCROLL ->
               LET scroll_x == calculate_scroll_y(x, y, c.rotation)
                   rx == process_scroll_input(acc_x, scroll_x, c.scroll_tick, TRUE)
                   ry == process_scroll_input(acc_y, scroll_y, c.scroll_tick, FALSE)
               IN  [keep EXCEPT !.acc_x = rx.acc, !.acc_y = ry.acc] @@
                   [events |-> rx.events \o ry.events]
          [] OTHER -> keep @@ [events |-> <<>>]

\* the pointer modes clearing the scroll remainder
dispatch_pointer_resets(c, input_mode, x, y, scroll_y, acc, acc_x, acc_y) ==
    LET keep == [acc |-> acc, acc_x |-> acc_x, acc_y |-> acc_y]
    IN  CASE input_mode = PAW32XX_MOVE ->
               [keep EXCEPT !.acc = 0] @@
               [events |-> <<Rel("REL_X", x, FALSE), Rel("REL_Y", y, TRUE)>>]
          [] input_mode = PAW32XX_SNIPE ->
               LET divisor == MAX(1, c.snipe_divisor)
               IN  [keep EXCEPT !.acc = 0] @@
                   [events |-> <<Rel("REL_X", ToInt16(CDiv(x, divisor)), FALSE),
                                 Rel("REL_Y", ToInt16(CDiv(y, divisor)), TRUE)>>]
          [] input_mode = PAW32XX_SCROLL ->
               LET r == process_scroll_input(acc, scroll_y, c.scroll_tick, FALSE)
               IN  [keep EXCEPT !.acc = r.acc] @@ [events |-> r.events]
          [] input_mode = PAW32XX_SCROLL_HORIZONTAL ->
               LET r == process_scroll_input(acc, scroll_y, c.scroll_tick, TRUE)
               IN  [keep EXCEPT !.acc = r.acc] @@ [events |-> r.events]
          [] input_mode = PAW32XX_SCROLL_SNIPE ->
               LET divisor == MAX(1, c.scroll_snipe_divisor)
                   snipe_scroll_y == ToInt16(CDiv(scroll_y, divisor))
                   r == process_scroll_input(acc, snipe_scroll_y,
                                             c.scroll_snipe_tick, FALSE)
               IN  [keep EXCEPT !.acc = r.acc] @@ [events |-> r.events]
          [] input_mode = PAW32XX_SCROLL_HORIZONTAL_SNIPE ->
               LET divisor == MAX(1, c.scroll_snipe_divisor)
                   snipe_scroll_y == ToInt16(CDiv(scroll_y, divisor))
                   r == process_scroll_input(acc, snipe_scroll_y,
                                             c.scroll_snipe_tick, TRUE)
               IN  [keep EXCEPT !.acc = r.acc] @@ [events |-> r.events]
          [] input_mode = PAW32XX_BOTHSCROLL ->
               LET scroll_x == calculate_scroll_y(y, x, c.rotation)
                   rx == process_scroll_input(acc_x, scroll_x, c.scroll_tick, TRUE)
                   ry == process_scroll_input(acc_y, scroll_y, c.scroll_tick, FALSE)
               IN  [keep EXCEPT !.acc_x = rx.acc, !.acc_y = ry.acc] @@
                   [events |-> rx.events \o ry.events]
          [] OTHER -> keep @@ [events |-> <<>>]

\* lines 358-404: the reports and the accumulators after the dispatch switch
dispatch(c, input_mode, x, y, scroll_y, acc, acc_x, acc_y) ==
    LET keep == [acc |-> acc, acc_x |-> acc_x, acc_y |-> acc_y]
    IN  CASE input_mode = PAW32XX_MOVE ->
               [keep EXCEPT !.acc = acc] @@
               [events |-> <<Rel("REL_X", x, FALSE), Rel("REL_Y", y, TRUE)>>]
          [] input_mode = PAW32XX_SNIPE ->
               LET divisor == MAX(1, c.snipe_divisor)
               IN  keep @@
                   [events |-> <<Rel("REL_X", ToInt16(CDiv(x, divisor)), FALSE),
                                 Rel("REL_Y", ToInt16(CDiv(y, divisor)), TRUE)>>]
          [] input_mode = PAW32XX_SCROLL ->
               LET r == process_scroll_input(acc, scroll_y, c.scroll_tick, FALSE)
               IN  [keep EXCEPT !.acc = r.acc] @@ [events |-> r.events]
          [] input_mode = PAW32XX_SCROLL_HORIZONTAL ->
               LET r == process_scroll_input(acc, scroll_y, c.scroll_tick, TRUE)
               IN  [keep EXCEPT !.acc = r.acc] @@ [events |-> r.events]
          [] input_mode = PAW32XX_SCROLL_SNIPE ->
               LET divisor == MAX(1, c.scroll_snipe_divisor)
                   snipe_scroll_y == ToInt16(CDiv(scroll_y, divisor))
                   r == process_scroll_input(acc, snipe_scroll_y,
                                             c.scroll_snipe_tick, FALSE)
               IN  [keep EXCEPT !.acc = r.acc] @@ [events |-> r.events]
          [] input_mode = PAW32XX_SCROLL_HORIZONTAL_SNIPE ->
               LET divisor == MAX(1, c.scroll_snipe_divisor)
                   snipe_scroll_y == ToInt16(CDiv(scroll_y, divisor))
                   r == process_scroll_input(acc, snipe_scroll_y,
                                             c.scroll_snipe_tick, TRUE)
               IN  [keep EXCEPT !.acc = r.acc] @@ [events |-> r.events]
          [] input_mode = PAW32XX_BOTHSCROLL ->
               LET scroll_x == calculate_scroll_y(y, x, c.rotation)
                   rx == process_scroll_input(acc_x, scroll_x, c.scroll_tick, TRUE)
                   ry == process_scroll_input(acc_y, scroll_y, c.scroll_tick, FALSE)
               IN  [keep EXCEPT !.acc_x = rx.acc, !.acc_y = ry.acc] @@
                   [events |-> rx.events \o ry.events]
          [] OTHER -> keep @@ [events |-> <<>>]

\* the default case leaving the handler before the poll timer is started
work_dispatch_unknown_returns ==
    /\ w.pc = "dispatch"
    /\ LET d == dispatch(cfg, w.input_mode, w.x, w.y, w.scroll_y,
                         scroll_accumulator, scroll_accumulator_x,
                         scroll_accumulator_y)
       IN  /\ scroll_accumulator' = d.acc
           /\ scroll_accumulator_x' = d.acc_x
           /\ scroll_accumulator_y' = d.acc_y
           /\ reports' = reports \o d.events
    /\ motion_timer' = IF w.input_mode \in 0 .. 6 THEN TRUE ELSE motion_timer
    /\ w' = [w EXCEPT !.pc = "done"]
    /\ UNCHANGED <<workFrame, current_mode, current_cpi, irq_enabled,
                   irq_line, motion_work, paw32xx_idle, paw32xx_idle_dev,
                   paw32xx_idle_timer, idle_timer_fresh, sleep_req, motion_in_idle, cyc, cpi_prev>>

\* the switch reading the mode again instead of the local input_mode
work_dispatch_rereads_mode ==
    /\ w.pc = "dispatch"
    /\ LET d == dispatch(cfg,
                         get_input_mode_for_current_layer(cfg, current_mode, 0),
                         w.x, w.y, w.scroll_y,
                         scroll_accumulator, scroll_accumulator_x,
                         scroll_accumulator_y)
       IN  /\ scroll_accumulator' = d.acc
           /\ scroll_accumulator_x' = d.acc_x
           /\ scroll_accumulator_y' = d.acc_y
           /\ reports' = reports \o d.events
    /\ motion_timer' = TRUE
    /\ w' = [w EXCEPT !.pc = "done"]
    /\ UNCHANGED <<workFrame, current_mode, current_cpi, irq_enabled,
                   irq_line, motion_work, paw32xx_idle, paw32xx_idle_dev,
                   paw32xx_idle_timer, idle_timer_fresh, sleep_req,
                   motion_in_idle, cyc, cpi_prev>>

\* lines 358-407: dispatch by mode, then restart the 15 ms poll timer
work_dispatch ==
    /\ w.pc = "dispatch"
    /\ LET d == dispatch(cfg, w.input_mode, w.x, w.y, w.scroll_y,
                         scroll_accumulator, scroll_accumulator_x,
                         scroll_accumulator_y)
       IN  /\ scroll_accumulator' = d.acc
           /\ scroll_accumulator_x' = d.acc_x
           /\ scroll_accumulator_y' = d.acc_y
           /\ reports' = reports \o d.events
    /\ motion_timer' = TRUE
    /\ w' = [w EXCEPT !.pc = "done"]
    /\ UNCHANGED <<workFrame, current_mode, current_cpi, irq_enabled,
                   irq_line, motion_work, paw32xx_idle, paw32xx_idle_dev,
                   paw32xx_idle_timer, idle_timer_fresh, sleep_req, motion_in_idle, cyc, cpi_prev>>

\* the error path returning without its cleanup
work_cleanup_no_enable ==
    /\ w.pc = "cleanup"
    /\ w' = [w EXCEPT !.pc = "done"]
    /\ UNCHANGED <<workFrame, dataVars, schedVars, irq_line, sleep_req,
                   motion_in_idle, reports, cyc, cpi_prev>>

\* lines 409-413: cleanup after a transport error
work_cleanup ==
    /\ w.pc = "cleanup"
    /\ irq_enabled' = IF w.irq_disabled THEN TRUE ELSE irq_enabled
    /\ cyc' = [cyc EXCEPT !.rearmed = @ \/ w.irq_disabled]
    /\ w' = [w EXCEPT !.pc = "done"]
    /\ UNCHANGED <<workFrame, dataVars, irq_line, motion_timer, motion_work,
                   paw32xx_idle, paw32xx_idle_dev, paw32xx_idle_timer, idle_timer_fresh,
                   sleep_req, motion_in_idle, reports, cpi_prev>>

\* the handler has returned: the work queue thread is free again
work_return ==
    /\ w.pc = "done"
    /\ w' = W0
    /\ reports' = <<>>
    /\ cyc' = Cyc0
    /\ UNCHANGED <<workFrame, dataVars, schedVars, irq_line, sleep_req, motion_in_idle,
                   cpi_prev>>

paw32xx_motion_work_handler ==
    \/ work_read_motion
    \/ work_rearm
    \/ work_check_pin
    \/ work_read_xy
    \/ work_idle_wake
    \/ work_resolve_mode
    \/ work_dispatch
    \/ work_cleanup

----------------------------------------------------------------------------
(* The device: initialisation, sensor, handlers, work queue and toggles *)

Next ==
    \/ \E stage \in InitStages : paw32xx_init(stage)
    \/ MotionIrq
    \/ SensorMotionMasked
    \/ paw32xx_motion_timer_handler
    \/ paw32xx_idle_timeout_handler
    \/ work_start
    \/ paw32xx_motion_work_handler
    \/ work_return
    \/ \E param1 \in Params : binding_pressed(param1)

Spec == Init /\ [][Next]_vars

----------------------------------------------------------------------------
(* The device under configurations of the two CPI properties: in range,    *)
(* out of range (paw32xx_configure ignores the result of                   *)
(* paw32xx_set_resolution) and not positive (paw32xx_configure then leaves *)
(* the resolution alone).                                                  *)

\* res-cpi not set: the value the "cfg->res_cpi > 0" test is there for
CfgCpiUnset == [CfgToggle EXCEPT !.res_cpi = -1]

\* both CPI properties outside the range of paw32xx_set_resolution
CfgCpiOutOfRange == [CfgToggle EXCEPT !.res_cpi = 100, !.snipe_cpi = 5000]

CpiConfigs == {CfgToggle, CfgCpiUnset, CfgCpiOutOfRange}

CpiInit == \E c \in CpiConfigs : InitWith(c)

CpiSpec == CpiInit /\ [][Next]_vars

----------------------------------------------------------------------------
(* process_scroll_input on its own: the accumulator starts anywhere in the *)
(* int16 range the device can have driven it to, and the function is       *)
(* called with deltas the sensor can deliver and uint8 thresholds.         *)

MaxScrollCalls == 2

AccStarts == {INT16_MIN, -32760, -12, 0, 4, 32760, INT16_MAX}

ScrollDeltas == {-128, -20, -4, 0, 4, 20, 128}

Thresholds == {0, 1, 10, 255}

ScrollInit ==
    \E a \in AccStarts : StaticInit(CfgToggle) /\ scroll_accumulator = a

process_scroll_input_call ==
    /\ scr.n < MaxScrollCalls
    /\ \E d \in ScrollDeltas, t \in Thresholds, h \in BOOLEAN :
          LET r == process_scroll_input(scroll_accumulator, d, t, h)
          IN  /\ scroll_accumulator' = r.acc
              /\ reports' = r.events
              /\ scr' = [n |-> scr.n + 1, before |-> scroll_accumulator,
                         delta |-> d, threshold |-> t, horizontal |-> h,
                         added |-> r.added,
                         start |-> IF scr.n = 0 THEN scroll_accumulator
                                   ELSE scr.start,
                         fed |-> scr.fed + d,
                         paid |-> scr.paid + t * (IF r.events = <<>> THEN 0
                                                  ELSE r.events[1].value),
                         clamped |-> scr.clamped \/ r.added # scroll_accumulator + d]
    /\ UNCHANGED <<cfg, init_ret, paw3222_dev, motion_cb, current_mode,
                   current_cpi, scroll_accumulator_x, scroll_accumulator_y,
                   irq_line, schedVars, w, sleep_req, motion_in_idle, cyc, cpi_prev, tog>>

ScrollNext == process_scroll_input_call

ScrollSpec == ScrollInit /\ [][ScrollNext]_vars

----------------------------------------------------------------------------
(* The behaviour binding on its own (builds with CONFIG_PAW3222_BEHAVIOR): *)
(* initialisation, and key presses and releases with every parameter, each *)
(* call logged in tog.                                                     *)

binding_pressed_call(param1) ==
    LET r == on_paw32xx_mode_binding_pressed(param1, paw3222_dev,
                                             current_mode)
    IN  /\ cfg.behavior
        /\ current_mode' = r.mode
        /\ tog' = [tog EXCEPT !.op = "pressed", !.param = param1,
                               !.dev = paw3222_dev, !.from = current_mode,
                               !.ret = r.ret, !.p_param = tog.param,
                               !.p_dev = tog.dev, !.p_from = tog.from,
                               !.p_ret = tog.ret]
        /\ UNCHANGED <<cfg, init_ret, paw3222_dev, motion_cb, current_cpi,
                       scroll_accumulator, scroll_accumulator_x,
                       scroll_accumulator_y, irq_line, schedVars, w,
                       sleep_req, motion_in_idle, reports, cyc, cpi_prev, scr>>

binding_released_call(param1) ==
    LET r == on_paw32xx_mode_binding_released(param1, paw3222_dev,
                                              current_mode)
    IN  /\ cfg.behavior
        /\ current_mode' = r.mode
        /\ tog' = [tog EXCEPT !.op = "released", !.rel_ret = r.ret]
        /\ UNCHANGED <<cfg, init_ret, paw3222_dev, motion_cb, current_cpi,
                       scroll_accumulator, scroll_accumulator_x,
                       scroll_accumulator_y, irq_line, schedVars, w,
                       sleep_req, motion_in_idle, reports, cyc, cpi_prev, scr>>

ToggleNext ==
    \/ \E stage \in InitStages : paw32xx_init(stage)
    \/ \E param1 \in Params : binding_pressed_call(param1)
    \/ \E param1 \in Params : binding_released_call(param1)

ToggleSpec == Init /\ [][ToggleNext]_vars

----------------------------------------------------------------------------
(* get_input_mode_for_current_layer on its own: called with every value    *)
(* the int-sized current_mode field can be handed (0 .. 6 have a case of   *)
(* their own, 7 stands for the rest), every layer, and instances of both   *)
(* switch methods with and without layer lists.  cyc.layer logs the layer  *)
(* of the call and w.input_mode its result.                                *)

\* layer lists nested so that layer i is in the last 6 - i lists
CfgLayerNested ==
    [CfgLayer EXCEPT !.scroll_horizontal_snipe_layers = <<1>>,
                     !.scroll_snipe_layers = <<1, 2>>,
                     !.scroll_horizontal_layers = <<1, 2, 3>>,
                     !.scroll_layers = <<1, 2, 3, 4>>,
                     !.snipe_layers = <<1, 2, 3, 4, 5>>]

\* switch-method = "toggle" with the layer properties left in the devicetree
CfgToggleWithLayers ==
    [CfgLayer EXCEPT !.switch_method = PAW32XX_SWITCH_TOGGLE]

ResolveConfigs == {CfgToggle, CfgToggleWithLayers, CfgLayer, CfgLayerNested}

StoredModes == 0 .. 7

ResolveInit ==
    \E c \in ResolveConfigs, m \in StoredModes :
        ZeroInit(c) /\ current_mode = m /\ scroll_accumulator = 0

get_input_mode_call ==
    /\ \E curr_layer \in Layers :
          /\ w' = [w EXCEPT !.input_mode =
                       get_input_mode_for_current_layer(cfg, current_mode,
                                                        curr_layer)]
          /\ cyc' = [cyc EXCEPT !.layer = curr_layer]
    /\ UNCHANGED <<cfg, init_ret, paw3222_dev, motion_cb, dataVars, irq_line,
                   schedVars, sleep_req, motion_in_idle, tog, reports,
                   cpi_prev, scr>>

ResolveNext == get_input_mode_call

ResolveSpec == ResolveInit /\ [][ResolveNext]_vars

----------------------------------------------------------------------------
(* calculate_scroll_y on its own: instances with the four supported        *)
(* rotations and with other uint16 values of the property, called with     *)
(* deltas from both ends and the middle of the int16 range.  w.x, w.y and  *)
(* w.scroll_y log the call, cyc.xy that it was made.                       *)

Rotations == {0, 90, 180, 270, 45, 360, 65535}

Int16Samples == {INT16_MIN, -32767, -5, 0, 5, INT16_MAX}

RotateInit ==
    \E r \in Rotations : InitWith([CfgToggle EXCEPT !.rotation = r])

calculate_scroll_y_call ==
    /\ \E x \in Int16Samples, y \in Int16Samples :
          w' = [w EXCEPT !.x = x, !.y = y,
                         !.scroll_y = calculate_scroll_y(x, y, cfg.rotation)]
    /\ cyc' = [cyc EXCEPT !.xy = "ok"]
    /\ UNCHANGED <<cfg, init_ret, paw3222_dev, motion_cb, dataVars, irq_line,
                   schedVars, sleep_req, motion_in_idle, tog, reports,
                   cpi_prev, scr>>

RotateNext == calculate_scroll_y_call

RotateSpec == RotateInit /\ [][RotateNext]_vars

----------------------------------------------------------------------------
(* The dispatch switch on its own: a cycle of an initialised device that   *)
(* has read (x, y), set the CPI and stands before the switch, with every   *)
(* value of input_mode (0 .. 6 have a case of their own, 7 stands for the  *)
(* rest), the four supported rotations and accumulators on both sides of   *)
(* zero.                                                                   *)

DispatchConfigs == {[CfgToggle EXCEPT !.rotation = r] : r \in {0, 90, 180, 270}}

InputModes == 0 .. 7

DispatchSamples == {<<-5, 5>>, <<7, -3>>, <<0, 0>>}

AccSamples == {-4, 0, 4}

DispatchInit ==
    \E c \in DispatchConfigs, m \in InputModes, xy \in DispatchSamples,
       a \in AccSamples, ax \in AccSamples, ay \in AccSamples :
        /\ cfg = c
        /\ init_ret = "ok"
        /\ paw3222_dev = c.behavior
        /\ motion_cb = TRUE
        /\ current_mode = IF m \in SixModes \cup {PAW32XX_BOTHSCROLL}
                          THEN m ELSE PAW32XX_MOVE
        /\ current_cpi = target_cpi(c, m)
        /\ scroll_accumulator = a
        /\ scroll_accumulator_x = ax
        /\ scroll_accumulator_y = ay
        /\ irq_enabled = FALSE
        /\ irq_line = 0
        /\ motion_timer = FALSE
        /\ motion_work = <<>>
        /\ paw32xx_idle = FALSE
        /\ paw32xx_idle_dev = TRUE
        /\ paw32xx_idle_timer = TRUE
        /\ idle_timer_fresh = TRUE
        /\ w = [W0 EXCEPT !.pc = "dispatch", !.val = 1, !.x = xy[1],
                          !.y = xy[2],
                          !.scroll_y = calculate_scroll_y(xy[1], xy[2],
                                                          c.rotation),
                          !.input_mode = m]
        /\ sleep_req = SleepReq("none", "none", "none")
        /\ motion_in_idle = FALSE
        /\ tog = Tog0
        /\ reports = <<>>
        /\ cyc = [Cyc0 EXCEPT !.status = "set", !.xy = "ok", !.resolved = 1,
                              !.cpi_target = target_cpi(c, m),
                              !.cpi_rc = "0"]
        /\ cpi_prev = CpiOutcome(m, "0")
        /\ scr = Scr0

DispatchNext == work_dispatch

DispatchSpec == DispatchInit /\ [][DispatchNext]_vars

----------------------------------------------------------------------------
(* The device under the scheduling the kernel guarantees: the work queue   *)
(* thread runs a queued item and each step of a running handler, and an    *)
(* armed poll timer expires.  Sensor motion, key presses and the 5 minute  *)
(* idle timeout are left to the environment.                               *)

FairSpec ==
    /\ Init
    /\ [][Next]_vars
    /\ WF_vars(work_start)
    /\ WF_vars(paw32xx_motion_work_handler)
    /\ WF_vars(work_return)
    /\ WF_vars(paw32xx_motion_timer_handler)

----------------------------------------------------------------------------
(* The same scheduling with the length of the idle period kept: the idle   *)
(* timer runs PAW32XX_IDLE_TIMEOUT_SECONDS after its last start, a poll    *)
(* period is 15 ms, so the idle period does not run out between the start  *)
(* of the idle timer in a cycle and the end of the chain that cycle        *)
(* continues; it runs out only while nothing is queued, armed or running.  *)

\* the idle period elapses since the last start of the idle timer
IdleTimePasses ==
    /\ paw32xx_idle_timer
    /\ idle_timer_fresh
    /\ ~motion_timer
    /\ motion_work = <<>>
    /\ w.pc = "none"
    /\ idle_timer_fresh' = FALSE
    /\ UNCHANGED <<cfg, init_ret, paw3222_dev, motion_cb, dataVars, irq_enabled,
                   irq_line, motion_timer, motion_work, paw32xx_idle,
                   paw32xx_idle_dev, paw32xx_idle_timer, w, sleep_req,
                   motion_in_idle, reports, cyc, cpi_prev, tog, scr>>

\* the idle timer expires no sooner than its period after its last start
idle_timer_expiry ==
    /\ ~idle_timer_fresh
    /\ paw32xx_idle_timeout_handler

TimedNext ==
    \/ \E stage \in InitStages : paw32xx_init(stage)
    \/ MotionIrq
    \/ SensorMotionMasked
    \/ paw32xx_motion_timer_handler
    \/ IdleTimePasses
    \/ idle_timer_expiry
    \/ work_start
    \/ paw32xx_motion_work_handler
    \/ work_return
    \/ \E param1 \in Params : binding_pressed(param1)

TimedFairSpec ==
    /\ Init
    /\ [][TimedNext]_vars
    /\ WF_vars(work_start)
    /\ WF_vars(paw32xx_motion_work_handler)
    /\ WF_vars(work_return)
    /\ WF_vars(paw32xx_motion_timer_handler)

----------------------------------------------------------------------------
(* Properties *)

\* C1 (as the code has it): in a cycle whose motion-status read succeeds
\* with the new-motion bit clear the interrupt is re-armed; when the IRQ
\* line then reads inactive the cycle ends without an XY read and without
\* a report; when the line reads active the cycle goes on to the XY read.
C1_NoMotionRearmThenPin ==
    cyc.status = "clear" =>
        /\ (w.pc # "rearm" => cyc.rearmed /\ ~w.irq_disabled)
        /\ (cyc.pin = 0 => w.pc = "done" /\ cyc.xy = "none" /\ reports = <<>>)
        /\ (cyc.pin = 1 => w.pc # "pin" /\ (w.pc = "done" => cyc.xy # "none"))

C1_Witness ==
    /\ cyc.status = "clear"
    /\ cyc.rearmed
    /\ cyc.pin = 0
    /\ w.pc = "done"
    /\ cyc.xy = "none"
    /\ reports = <<>>

\* C1 as stated: with the new-motion bit clear the interrupt is re-armed,
\* the XY deltas are not read and nothing is reported, whatever the level
\* of the IRQ line.
C1_NoMotionNeverReads ==
    cyc.status = "clear" =>
        /\ (w.pc # "rearm" => cyc.rearmed)
        /\ cyc.xy = "none"
        /\ reports = <<>>

\* a step in which the armed interrupt sees the motion pin go active while
\* the idle flag is set
IrqWhileIdle ==
    /\ paw32xx_idle
    /\ irq_enabled /\ motion_cb
    /\ irq_line = 0 /\ irq_line' = 1

\* C2: the motion interrupt handler running while idle clears the idle
\* flag, re-enables the interrupt, restarts the poll timer, leaves exactly
\* one processing cycle queued and re-arms the idle timer, in one step in
\* which no mode is resolved and nothing is reported.
C2_IrqWakeWhileIdle ==
    [][IrqWhileIdle =>
          /\ ~paw32xx_idle'
          /\ irq_enabled'
          /\ motion_timer'
          /\ Len(motion_work') = 1
          /\ paw32xx_idle_timer'
          /\ reports' = reports
          /\ cyc'.resolved = cyc.resolved
          /\ w' = w]_vars

C2_Witness ==
    /\ sleep_req.req = "wake" /\ sleep_req.by = "irq"
    /\ ~paw32xx_idle
    /\ irq_enabled
    /\ irq_line = 1
    /\ motion_timer
    /\ Len(motion_work) = 1
    /\ paw32xx_idle_timer

\* the idle state the timeout handler leaves, no cycle running, the motion
\* pin having gone active since
IdleWithMotion ==
    /\ paw32xx_idle
    /\ w.pc = "none"
    /\ ~irq_enabled
    /\ motion_work = <<>>
    /\ ~motion_timer
    /\ motion_in_idle

\* C3: from the idle state the timeout handler leaves, new sensor motion
\* eventually leads to the idle flag cleared and a processing cycle running.
C3_IdleRecoverable ==
    IdleWithMotion ~> (~paw32xx_idle /\ w.pc # "none")

\* a step in which the idle timer expires
IdleExpiry == paw32xx_idle_timer /\ ~paw32xx_idle_timer'

\* C4: the idle timeout handler leaves the interrupt disabled, no cycle
\* pending, the poll timer stopped and the idle flag set, also when the
\* sensor sleep request fails.
C4_IdleTimeoutEntersIdle ==
    [][IdleExpiry =>
          /\ ~irq_enabled'
          /\ motion_work' = <<>>
          /\ ~motion_timer'
          /\ paw32xx_idle']_vars

C4_Witness ==
    /\ sleep_req = SleepReq("sleep", "timeout", "-EIO")
    /\ paw32xx_idle
    /\ ~irq_enabled
    /\ motion_work = <<>>
    /\ ~motion_timer
    /\ ~paw32xx_idle_timer

\* a step in which the work queue thread starts the queued cycle
WorkTaken == w.pc = "none" /\ w'.pc = "read_motion"

\* a step in which the armed interrupt or the poll timer fires
Firing ==
    \/ irq_enabled /\ motion_cb /\ irq_line = 0 /\ irq_line' = 1
    \/ motion_timer /\ ~motion_timer' /\ ~IdleExpiry

\* C5 as stated: at most one cycle is queued, every firing leaves exactly
\* one cycle queued, and a queued cycle is never lost: it leaves the queue
\* only by starting, while no other execution runs.
C5_NeverLost ==
    [][/\ Len(motion_work') <= 1
       /\ (Firing => Len(motion_work') = 1)
       /\ (Len(motion_work') < Len(motion_work) => WorkTaken)]_vars

\* the step of a cycle that resolves the mode and switches the CPI
CpiStep == w.pc = "resolve" /\ w'.pc = "dispatch"

\* C6 (as the code has it): a cycle issues the CPI-set only if the target
\* differs from the cached CPI, and a cycle resolving SNIPE right after a
\* cycle that resolved SNIPE and whose CPI-set succeeded makes no CPI-set
\* call: one call across the two.
C6_CpiSetOnceAfterSuccess ==
    [][CpiStep =>
          /\ (cyc'.cpi_rc # "none" => current_cpi # cyc'.cpi_target)
          /\ (cpi_prev = "snipe_set" /\ w'.input_mode = PAW32XX_SNIPE =>
                 cyc'.cpi_rc = "none")]_vars

C6_Witness ==
    /\ cpi_prev = "snipe_pair"
    /\ w.pc = "dispatch"
    /\ w.input_mode = PAW32XX_SNIPE
    /\ cyc.cpi_rc = "none"
    /\ current_cpi = cyc.cpi_target

\* C6 as stated: a cycle issues the CPI-set only if the target differs
\* from the cached CPI, and of two consecutive cycles resolving SNIPE, the
\* first of which found the cache different and made the call, the second
\* makes none.
C6_CpiSetOnce ==
    [][CpiStep =>
          /\ (cyc'.cpi_rc # "none" => current_cpi # cyc'.cpi_target)
          /\ (cpi_prev \in {"snipe_set", "snipe_failed"}
                 /\ w'.input_mode = PAW32XX_SNIPE =>
                 cyc'.cpi_rc = "none")]_vars

\* the snipe CPI of a configuration: the configured one, or the platform
\* default when unset
SnipeCpi(c) == IF c.snipe_cpi > 0 THEN c.snipe_cpi
               ELSE CONFIG_PAW3222_SNIPE_CPI

\* C7 (as the code has it): the target CPI of a cycle is the snipe CPI when
\* the resolved mode is SNIPE, and the configured default CPI for every
\* other mode, SCROLL_SNIPE and SCROLL_HORIZONTAL_SNIPE included.
C7_SnipeCpiInSnipeOnly ==
    cyc.resolved > 0 =>
        cyc.cpi_target = IF w.input_mode = PAW32XX_SNIPE THEN SnipeCpi(cfg)
                         ELSE cfg.res_cpi

C7_Witness ==
    /\ cyc.resolved > 0
    /\ w.input_mode = PAW32XX_SCROLL_SNIPE
    /\ cyc.cpi_target = cfg.res_cpi
    /\ cfg.res_cpi # SnipeCpi(cfg)

\* C7 as stated: the target CPI is the snipe CPI whenever the resolved mode
\* is SNIPE, SCROLL_SNIPE or SCROLL_HORIZONTAL_SNIPE, and the configured
\* default CPI for every other mode.
C7_SnipeCpiInSnipeFamily ==
    cyc.resolved > 0 =>
        cyc.cpi_target = IF w.input_mode \in {PAW32XX_SNIPE,
                                              PAW32XX_SCROLL_SNIPE,
                                              PAW32XX_SCROLL_HORIZONTAL_SNIPE}
                         THEN SnipeCpi(cfg)
                         ELSE cfg.res_cpi

Abs(v) == IF v < 0 THEN -v ELSE v

Sign(v) == IF v > 0 THEN 1 ELSE -1

Clamp16(v) == IF v > 32767 THEN 32767 ELSE IF v < -32768 THEN -32768 ELSE v

\* C8: for every threshold >= 1 and every accumulator value in the int16
\* range, process_scroll_input adds the delta (clamped), then if
\* |accumulator| >= threshold reports exactly one tick with the sign of the
\* accumulator on the requested axis and subtracts sign * threshold, and
\* otherwise reports nothing.
C8_OneTickAtThreshold ==
    (scr.n > 0 /\ scr.threshold >= 1) =>
        LET a == Clamp16(scr.before + scr.delta)
            axis == IF scr.horizontal THEN "REL_HWHEEL" ELSE "REL_WHEEL"
        IN  IF Abs(a) >= scr.threshold
            THEN /\ Len(reports) = 1
                 /\ reports[1].code = axis
                 /\ reports[1].value = Sign(a)
                 /\ scroll_accumulator = a - Sign(a) * scr.threshold
            ELSE /\ reports = <<>>
                 /\ scroll_accumulator = a

\* C9: after any sequence of scroll-processing calls every scroll
\* accumulator is within [-32768, 32767], and an add whose exact sum lies
\* outside the range stores the nearest bound, never the wrapped value.
C9_AccumulatorClamped ==
    /\ scroll_accumulator \in -32768 .. 32767
    /\ scroll_accumulator_x \in -32768 .. 32767
    /\ scroll_accumulator_y \in -32768 .. 32767
    /\ (scr.n > 0 => scr.added = Clamp16(scr.before + scr.delta))

C9_Witness ==
    /\ scr.n > 0
    /\ scr.before = 32760
    /\ scr.delta = 20
    /\ scr.added = 32767

\* C10: the axis toggle (parameter 0) on an initialized device succeeds
\* from all six modes; from MOVE or SNIPE the mode becomes SCROLL, from
\* each of the four scroll modes it becomes MOVE.
C10_AxisToggle ==
    (tog.op = "pressed" /\ tog.param = 0 /\ tog.dev /\ init_ret = "ok") =>
        /\ tog.from \in SixModes
        /\ tog.ret = "0"
        /\ current_mode = IF tog.from \in {PAW32XX_MOVE, PAW32XX_SNIPE}
                          THEN PAW32XX_SCROLL
                          ELSE PAW32XX_MOVE

C10_Witness ==
    /\ tog.op = "pressed" /\ tog.param = 0 /\ tog.dev /\ init_ret = "ok"
    /\ tog.from = PAW32XX_SCROLL_HORIZONTAL_SNIPE
    /\ tog.ret = "0"
    /\ current_mode = PAW32XX_MOVE

\* the precision partner of a mode
Partner(mode) ==
    CASE mode = PAW32XX_MOVE -> PAW32XX_SNIPE
      [] mode = PAW32XX_SNIPE -> PAW32XX_MOVE
      [] mode = PAW32XX_SCROLL -> PAW32XX_SCROLL_SNIPE
      [] mode = PAW32XX_SCROLL_SNIPE -> PAW32XX_SCROLL
      [] mode = PAW32XX_SCROLL_HORIZONTAL -> PAW32XX_SCROLL_HORIZONTAL_SNIPE
      [] mode = PAW32XX_SCROLL_HORIZONTAL_SNIPE -> PAW32XX_SCROLL_HORIZONTAL

\* C11: the precision toggle (parameter 1) exchanges MOVE with SNIPE,
\* SCROLL with SCROLL_SNIPE and SCROLL_HORIZONTAL with
\* SCROLL_HORIZONTAL_SNIPE, so two consecutive presses of it restore the
\* mode the first one found.
C11_PrecisionInvolution ==
    /\ (tog.param = 1 /\ tog.dev) =>
           /\ tog.from \in SixModes
           /\ tog.ret = "0"
           /\ current_mode = Partner(tog.from)
    /\ (tog.param = 1 /\ tog.dev /\ tog.p_param = 1 /\ tog.p_dev) =>
           /\ tog.from = Partner(tog.p_from)
           /\ current_mode = tog.p_from

C11_Witness ==
    /\ tog.param = 1 /\ tog.dev /\ tog.p_param = 1 /\ tog.p_dev
    /\ tog.p_from = PAW32XX_SCROLL_HORIZONTAL
    /\ tog.from = PAW32XX_SCROLL_HORIZONTAL_SNIPE
    /\ current_mode = PAW32XX_SCROLL_HORIZONTAL

\* everything a toggle is not meant to touch
nonModeVars ==
    <<cfg, init_ret, paw3222_dev, motion_cb, current_cpi, scroll_accumulator,
      scroll_accumulator_x, scroll_accumulator_y, irq_enabled, irq_line,
      motion_timer, motion_work, paw32xx_idle, paw32xx_idle_dev,
      paw32xx_idle_timer, w, sleep_req, motion_in_idle, reports, cyc,
      cpi_prev, scr>>

\* a step that is a key press with the given parameter, the device
\* reference being set
PressStep(param1) ==
    /\ tog' # tog
    /\ tog'.op = "pressed"
    /\ tog'.param = param1
    /\ tog'.dev

\* the mode of the other scroll direction, same precision
OtherDirection(mode) ==
    CASE mode = PAW32XX_SCROLL -> PAW32XX_SCROLL_HORIZONTAL
      [] mode = PAW32XX_SCROLL_HORIZONTAL -> PAW32XX_SCROLL
      [] mode = PAW32XX_SCROLL_SNIPE -> PAW32XX_SCROLL_HORIZONTAL_SNIPE
      [] mode = PAW32XX_SCROLL_HORIZONTAL_SNIPE -> PAW32XX_SCROLL_SNIPE

\* C12: the direction toggle (parameter 2) exchanges SCROLL with
\* SCROLL_HORIZONTAL and SCROLL_SNIPE with SCROLL_HORIZONTAL_SNIPE; in MOVE
\* or SNIPE it returns an error and leaves the mode and all other state
\* unchanged.
C12_DirectionToggle ==
    [][PressStep(2) =>
          /\ tog'.from = current_mode
          /\ UNCHANGED nonModeVars
          /\ IF current_mode \in {PAW32XX_MOVE, PAW32XX_SNIPE}
             THEN /\ tog'.ret \notin {"0", "none"}
                  /\ current_mode' = current_mode
             ELSE /\ tog'.ret = "0"
                  /\ current_mode' = OtherDirection(current_mode)]_vars

C12_Witness ==
    /\ tog.op = "pressed" /\ tog.param = 2 /\ tog.dev
    /\ tog.from = PAW32XX_SNIPE
    /\ tog.ret = "-ENODEV"
    /\ current_mode = PAW32XX_SNIPE

\* C13: a toggle invoked while device initialisation has not completed
\* successfully (not yet run, or run and returned an error) returns the
\* device-not-ready error and leaves the mode unchanged.
C13_NotReadyUnlessInitialized ==
    (tog.param \in 0 .. 2 /\ init_ret # "ok") =>
        /\ tog.ret = "-ENODEV"
        /\ current_mode = tog.from

\* the last press was a direction toggle applied in MOVE or SNIPE
NotApplicablePress ==
    tog.param = 2 /\ tog.dev /\ tog.from \in {PAW32XX_MOVE, PAW32XX_SNIPE}

\* the press before the last was a toggle made with no device reference
NotReadyBefore == tog.p_param \in 0 .. 2 /\ ~tog.p_dev

\* C14 (as the code has it): a toggle invoked with no device reference and
\* a direction toggle applied in MOVE or SNIPE both return -ENODEV: the
\* caller gets the same value for the two conditions, different only from
\* success (0) and from the unknown-parameter error (-EINVAL).
C14_SameErrorForBoth ==
    /\ (tog.param \in 0 .. 2 /\ ~tog.dev => tog.ret = "-ENODEV")
    /\ (NotApplicablePress => tog.ret = "-ENODEV")
    /\ (NotApplicablePress /\ NotReadyBefore => tog.ret = tog.p_ret)

C14_Witness ==
    /\ NotApplicablePress
    /\ NotReadyBefore
    /\ tog.ret = "-ENODEV"
    /\ tog.p_ret = "-ENODEV"

\* C14 as stated: the result of a toggle invoked before initialisation and
\* the result of a direction toggle applied in MOVE or SNIPE are never the
\* same value.
C14_DistinctErrors ==
    (NotApplicablePress /\ NotReadyBefore) => tog.ret # tog.p_ret

RECURSIVE ToggleClosure(_)
\* the modes that presses with parameters 0, 1 and 2 reach from a set of
\* modes, on a device whose reference is set
ToggleClosure(modes) ==
    LET step == modes \cup
                {on_paw32xx_mode_binding_pressed(p, TRUE, m).mode :
                     p \in 0 .. 2, m \in modes}
    IN  IF step = modes THEN modes ELSE ToggleClosure(step)

\* C15: starting from the initial mode MOVE the three toggles reach each of
\* the six modes, and no sequence of presses produces a mode outside the
\* six (never BOTHSCROLL).
C15_SixModesExactly ==
    /\ current_mode \in SixModes
    /\ current_mode # PAW32XX_BOTHSCROLL
    /\ ToggleClosure({PAW32XX_MOVE}) = SixModes

C15_Witness ==
    /\ init_ret = "ok"
    /\ cfg.switch_method = PAW32XX_SWITCH_TOGGLE
    /\ tog.dev /\ tog.p_dev
    /\ tog.p_from = PAW32XX_SCROLL
    /\ tog.from # PAW32XX_SCROLL
    /\ current_mode = PAW32XX_SCROLL_HORIZONTAL_SNIPE


\* a direct call of the resolver has returned
Resolved == cyc.layer # -1

ToggleResolved == Resolved /\ cfg.switch_method # PAW32XX_SWITCH_LAYER

LayerResolved == Resolved /\ cfg.switch_method = PAW32XX_SWITCH_LAYER

\* the five layer lists with their modes, in the order of the claim
ListOrder(c) ==
    << <<c.scroll_horizontal_snipe_layers, PAW32XX_SCROLL_HORIZONTAL_SNIPE>>,
       <<c.scroll_snipe_layers, PAW32XX_SCROLL_SNIPE>>,
       <<c.scroll_horizontal_layers, PAW32XX_SCROLL_HORIZONTAL>>,
       <<c.scroll_layers, PAW32XX_SCROLL>>,
       <<c.snipe_layers, PAW32XX_SNIPE>> >>

ListsWith(c, layer) ==
    {i \in 1 .. Len(ListOrder(c)) : InLayers(layer, ListOrder(c)[i][1])}

EarliestList(c, layer) ==
    CHOOSE i \in ListsWith(c, layer) : \A j \in ListsWith(c, layer) : i <= j

\* C17: under layer-based switching the resolved mode is the mode of the
\* earliest list, in the order horizontal-snipe, vertical-snipe, horizontal,
\* vertical, snipe, that holds the highest active layer, and MOVE when no
\* list holds it; the stored mode has no influence.
C17_EarliestListWins ==
    LayerResolved =>
        w.input_mode = IF ListsWith(cfg, cyc.layer) = {} THEN PAW32XX_MOVE
                       ELSE ListOrder(cfg)[EarliestList(cfg, cyc.layer)][2]

\* a layer held by several lists, resolved against a different stored mode
C17_Witness ==
    /\ LayerResolved
    /\ Cardinality(ListsWith(cfg, cyc.layer)) > 1
    /\ current_mode = PAW32XX_SNIPE
    /\ w.input_mode = PAW32XX_SCROLL_SNIPE

\* the negation of the claim: INT16_MAX for INT16_MIN
Negated(v) == IF v = INT16_MIN THEN INT16_MAX ELSE 0 - v

\* C18: calculate_scroll_y(x, y, rotation) is y at 0, x at 90, the negation
\* of y at 180 and of x at 270, with INT16_MAX for the negation of
\* INT16_MIN, and y for every other rotation value.
C18_RotationTable ==
    cyc.xy = "ok" =>
        /\ cfg.rotation = 0 => w.scroll_y = w.y
        /\ cfg.rotation = 90 => w.scroll_y = w.x
        /\ cfg.rotation = 180 => w.scroll_y = Negated(w.y)
        /\ cfg.rotation = 270 => w.scroll_y = Negated(w.x)
        /\ cfg.rotation \notin {0, 90, 180, 270} => w.scroll_y = w.y
        /\ w.scroll_y \in INT16_MIN .. INT16_MAX

\* x = INT16_MIN at 270 degrees
C18_Witness ==
    /\ cyc.xy = "ok"
    /\ cfg.rotation = 270
    /\ w.x = INT16_MIN
    /\ w.y = 5
    /\ w.scroll_y = INT16_MAX

\* the dispatch of a cycle has run
Dispatched == w.pc = "done" /\ cyc.resolved > 0

\* v / d as C divides: the quotient whose remainder has the sign of v
TowardZero(v, d) ==
    CHOOSE q \in -Abs(v) .. Abs(v) :
        \E r \in 0 .. d - 1 : v = q * d + (IF v < 0 THEN -r ELSE r)

\* C19: a MOVE cycle reports exactly the (x, y) it read, a SNIPE cycle
\* (x / d, y / d) with d = max(1, snipe_divisor) and the division
\* truncating toward zero; in both the X report comes first and only the Y
\* report is marked as the last of the batch.
C19_PointerReports ==
    LET d == IF cfg.snipe_divisor > 1 THEN cfg.snipe_divisor ELSE 1
    IN  /\ (Dispatched /\ w.input_mode = PAW32XX_MOVE) =>
               reports = << [code |-> "REL_X", value |-> w.x, sync |-> FALSE],
                            [code |-> "REL_Y", value |-> w.y, sync |-> TRUE] >>
        /\ (Dispatched /\ w.input_mode = PAW32XX_SNIPE) =>
               reports = << [code |-> "REL_X", value |-> TowardZero(w.x, d),
                             sync |-> FALSE],
                            [code |-> "REL_Y", value |-> TowardZero(w.y, d),
                             sync |-> TRUE] >>

\* a SNIPE cycle that read (-5, 5) with divisor 2 has reported (-2, 2)
C19_Witness ==
    /\ Dispatched
    /\ w.input_mode = PAW32XX_SNIPE
    /\ cfg.snipe_divisor = 2
    /\ w.x = -5
    /\ w.y = 5
    /\ reports[1].value = -2
    /\ reports[2].value = 2

SingleAxisScrollModes ==
    {PAW32XX_SCROLL, PAW32XX_SCROLL_HORIZONTAL, PAW32XX_SCROLL_SNIPE,
     PAW32XX_SCROLL_HORIZONTAL_SNIPE}

ScrollSnipeModes == {PAW32XX_SCROLL_SNIPE, PAW32XX_SCROLL_HORIZONTAL_SNIPE}

HorizontalModes == {PAW32XX_SCROLL_HORIZONTAL, PAW32XX_SCROLL_HORIZONTAL_SNIPE}

\* the dispatch step of a cycle
DispatchStep == w.pc = "dispatch" /\ w'.pc = "done"

\* what the claim feeds into the accumulator, and the threshold it uses
Fed(c, input_mode, scroll_y) ==
    IF input_mode \in ScrollSnipeModes
    THEN TowardZero(scroll_y, IF c.scroll_snipe_divisor > 1
                              THEN c.scroll_snipe_divisor ELSE 1)
    ELSE scroll_y

TickOf(c, input_mode) ==
    IF input_mode \in ScrollSnipeModes THEN c.scroll_snipe_tick
    ELSE c.scroll_tick

\* C20: a SCROLL or SCROLL_HORIZONTAL cycle feeds the rotation-transformed
\* value into the accumulator with threshold scroll_tick, a SCROLL_SNIPE or
\* SCROLL_HORIZONTAL_SNIPE cycle that value divided by
\* max(1, scroll_snipe_divisor) with threshold scroll_snipe_tick; what the
\* cycle emits is on the vertical resp. horizontal wheel axis, and no cycle
\* in a scroll mode makes a pointer X or Y report.
C20_ScrollDispatch ==
    [][(DispatchStep /\ w.input_mode \in SingleAxisScrollModes) =>
         LET r == process_scroll_input(
                      scroll_accumulator,
                      Fed(cfg, w.input_mode,
                          calculate_scroll_y(w.x, w.y, cfg.rotation)),
                      TickOf(cfg, w.input_mode),
                      w.input_mode \in HorizontalModes)
         IN  /\ scroll_accumulator' = r.acc
             /\ reports' = r.events
             /\ \A i \in 1 .. Len(reports') :
                    reports'[i].code = IF w.input_mode \in HorizontalModes
                                       THEN "REL_HWHEEL" ELSE "REL_WHEEL"]_vars

\* a horizontal scroll snipe cycle on an upside-down sensor that emitted a
\* tick: (-5, 5) is fed as -5 / 3 = -1 against scroll_snipe_tick = 2
C20_Witness ==
    /\ Dispatched
    /\ w.input_mode = PAW32XX_SCROLL_HORIZONTAL_SNIPE
    /\ cfg.rotation = 180
    /\ w.y = 5
    /\ reports = << [code |-> "REL_HWHEEL", value |-> -1, sync |-> TRUE] >>
    /\ scroll_accumulator = 0

\* the reports of a sequence made with the given code
WithCode(seq, code) == {i \in 1 .. Len(seq) : seq[i].code = code}

\* C21: a dual-axis scroll cycle accumulates the transform of (y, x) in the
\* horizontal accumulator and the transform of (x, y) in the vertical one,
\* each against scroll_tick and each from its own accumulator alone; the
\* single-axis accumulator is untouched and the cycle emits at most one
\* horizontal and at most one vertical tick.
C21_DualAxisIndependent ==
    [][(DispatchStep /\ w.input_mode = PAW32XX_BOTHSCROLL) =>
         LET rx == process_scroll_input(
                       scroll_accumulator_x,
                       calculate_scroll_y(w.y, w.x, cfg.rotation),
                       cfg.scroll_tick, TRUE)
             ry == process_scroll_input(
                       scroll_accumulator_y,
                       calculate_scroll_y(w.x, w.y, cfg.rotation),
                       cfg.scroll_tick, FALSE)
         IN  /\ scroll_accumulator_x' = rx.acc
             /\ scroll_accumulator_y' = ry.acc
             /\ scroll_accumulator' = scroll_accumulator
             /\ reports' = rx.events \o ry.events
             /\ Cardinality(WithCode(reports', "REL_HWHEEL")) <= 1
             /\ Cardinality(WithCode(reports', "REL_WHEEL")) <= 1
             /\ Len(reports') = Cardinality(WithCode(reports', "REL_HWHEEL"))
                                + Cardinality(WithCode(reports', "REL_WHEEL"))]_vars

\* a dual-axis cycle that read (7, -3) unrotated with the accumulators at
\* 0 and -4: a tick right with 2 left over, a tick down with -2 left over
C21_Witness ==
    /\ Dispatched
    /\ w.input_mode = PAW32XX_BOTHSCROLL
    /\ cfg.rotation = 0
    /\ w.x = 7
    /\ reports = << [code |-> "REL_HWHEEL", value |-> 1, sync |-> TRUE],
                    [code |-> "REL_WHEEL", value |-> -1, sync |-> TRUE] >>
    /\ scroll_accumulator_x = 2
    /\ scroll_accumulator_y = -2
    /\ scroll_accumulator = 4

\* the last step of a cycle whose motion-status or XY read failed
CleanupStep == w.pc = "cleanup" /\ w'.pc = "done"

\* C22: a cycle whose motion-status read or XY read failed makes no report,
\* has run neither the CPI step nor the dispatch (mode, accumulators and
\* cached CPI are as they were), arms neither the poll timer nor the idle
\* timer (its last step leaves them as the handlers left them), and ends
\* with the interrupt enabled.
C22_FailedCycleRearms ==
    [][CleanupStep =>
         /\ cyc.status = "fail" \/ cyc.xy = "fail"
         /\ cyc.resolved = 0
         /\ reports' = <<>>
         /\ UNCHANGED dataVars
         /\ motion_timer' = motion_timer
         /\ paw32xx_idle_timer' = paw32xx_idle_timer
         /\ irq_enabled']_vars

\* the step of a cycle that resolves the mode and switches the CPI
ResolveStep == w.pc = "resolve" /\ w'.pc # "resolve"

CpiFailed(c) == c.cpi_rc \notin {"none", "0"}

\* C23: when paw32xx_set_resolution fails in a cycle the cached CPI keeps
\* its value and the cycle goes on to the dispatch, which makes the reports
\* of the resolved mode and starts the poll timer as after a success.
C23_CpiFailureNotFatal ==
    [][/\ (ResolveStep /\ CpiFailed(cyc')) =>
             /\ current_cpi' = current_cpi
             /\ current_cpi' # cyc'.cpi_target
             /\ w'.pc = "dispatch"
       /\ (DispatchStep /\ CpiFailed(cyc)) =>
             LET d == dispatch(cfg, w.input_mode, w.x, w.y,
                               calculate_scroll_y(w.x, w.y, cfg.rotation),
                               scroll_accumulator, scroll_accumulator_x,
                               scroll_accumulator_y)
             IN  /\ reports' = d.events
                 /\ scroll_accumulator' = d.acc
                 /\ motion_timer'
                 /\ current_cpi' = current_cpi]_vars

\* a SNIPE cycle whose CPI switch failed has reported (-2, 2) and started
\* the poll timer, the cached CPI still the one from before
C23_Witness ==
    /\ Dispatched
    /\ cyc.cpi_rc = "-EIO"
    /\ w.input_mode = PAW32XX_SNIPE
    /\ cyc.cpi_target = cfg.snipe_cpi
    /\ current_cpi = cfg.res_cpi
    /\ Len(reports) = 2
    /\ reports[1].value = -2
    /\ motion_timer

ZeroDivisor == cfg.snipe_divisor = 0 \/ cfg.scroll_snipe_divisor = 0

\* C24: with snipe_divisor or scroll_snipe_divisor 0 paw32xx_init returns
\* an error, the motion interrupt is never enabled, the callback is not
\* left registered, and no cycle is ever queued or run; so every cycle that
\* runs has non-zero divisors.
C24_ZeroDivisorNeverOperational ==
    /\ ZeroDivisor =>
          /\ init_ret \in {"not_run", "-ENODEV", "-EINVAL"}
          /\ ~irq_enabled
          /\ ~motion_cb
          /\ motion_work = <<>>
          /\ w.pc = "none"
          /\ ~motion_timer
          /\ ~paw32xx_idle_timer
          /\ reports = <<>>
    /\ w.pc # "none" => ~ZeroDivisor

\* initialisation has rejected a zero scroll snipe divisor
C24_Witness ==
    /\ cfg.scroll_snipe_divisor = 0
    /\ init_ret = "-EINVAL"
    /\ ~irq_enabled
    /\ ~motion_cb

\* C25: no sensor register I/O is made in interrupt or timer-expiry
\* context: every sleep or wake request to the sensor (the only sensor
\* access outside the steps of the work handler) is made by the processing
\* cycle, never by the GPIO callback or the idle timeout handler.
C25_NoSensorIoInHandlers ==
    sleep_req.req # "none" => sleep_req.by = "work"

KnownModes == SixModes \cup {PAW32XX_BOTHSCROLL}

\* C26: the dispatch of every cycle that has read (x, y) ends with the
\* 15 ms poll timer started, whatever the value of input_mode; for a value
\* without a case the cycle makes no report and changes no accumulator.
C26_PollTimerAlwaysArmed ==
    [][DispatchStep =>
         /\ cyc.xy = "ok"
         /\ motion_timer'
         /\ w.input_mode \notin KnownModes =>
                /\ reports' = <<>>
                /\ UNCHANGED <<scroll_accumulator, scroll_accumulator_x,
                               scroll_accumulator_y>>]_vars

\* a cycle dispatched with a mode value that has no case
C26_Witness ==
    /\ Dispatched
    /\ w.input_mode \notin KnownModes
    /\ w.x = 7
    /\ reports = <<>>
    /\ motion_timer

\* a step of the work handler, and the step of paw32xx_init
WorkStep == w.pc \notin {"none", "done"} /\ w'.pc # w.pc

InitStep == init_ret = "not_run" /\ init_ret' # "not_run"

\* C27: once the device is initialised, every step that changes a scroll
\* accumulator, the cached CPI or the idle flag is a step of the work
\* handler; the interrupt handler and the timer expiry handlers change none
\* of them.
C27_SingleWriter ==
    [][(\/ scroll_accumulator' # scroll_accumulator
        \/ scroll_accumulator_x' # scroll_accumulator_x
        \/ scroll_accumulator_y' # scroll_accumulator_y
        \/ current_cpi' # current_cpi
        \/ paw32xx_idle' # paw32xx_idle) => (WorkStep \/ InitStep)]_vars

\* a wake
WakeStep == paw32xx_idle /\ ~paw32xx_idle'

\* C28: every cycle that has read (x, y) restarts the idle timer, every
\* wake restarts it, and the idle timeout handler never runs while the
\* device is already idle (between an entry into idle and the next wake it
\* runs once).
C28_IdleTimerOncePerIdle ==
    [][/\ ResolveStep => paw32xx_idle_timer'
       /\ WakeStep => paw32xx_idle_timer'
       /\ IdleExpiry => ~paw32xx_idle]_vars

\* the handler stands between the XY read and the end of the dispatch
ReadingOrDispatching == {"read_xy", "idle_wake", "resolve", "dispatch"}

\* the interrupt is enabled by the no-motion branch or by the cleanup of the
\* work handler
CycleRearms ==
    /\ w.pc \in {"rearm", "cleanup"}
    /\ w'.pc # w.pc

\* C29: the motion interrupt is disabled whenever the work handler is
\* reading deltas or dispatching reports, however the cycle was started,
\* and once initialised it is enabled again only by the work handler, in
\* its no-motion branch or in its cleanup after a transport error.
C29_IrqMaskedWhileProcessing ==
    [][/\ w'.pc \in ReadingOrDispatching => ~irq_enabled'
       /\ (~irq_enabled /\ irq_enabled') => (CycleRearms \/ InitStep)]_vars

\* a poll timer armed, a work item queued or the work handler running
ChainRunning == motion_timer \/ motion_work # <<>> \/ w.pc # "none"

\* the sensor reports no motion and the cycle has met no transport error
SensorQuiet == irq_line = 0 /\ cyc.status # "fail" /\ cyc.xy # "fail"

\* waiting for the interrupt
Armed ==
    /\ irq_enabled
    /\ ~motion_timer
    /\ motion_work = <<>>
    /\ w.pc = "none"

\* C30: once the sensor has stopped reporting motion, with no transport
\* error from then on, a running chain of poll-timer cycles ends: the
\* device comes to wait with the interrupt enabled, no poll timer armed and
\* no cycle queued or running.
C30_ChainTerminates ==
    []((ChainRunning /\ []SensorQuiet) => <>Armed)

\* the chain has ended in Armed and the idle timer, started in one of its
\* cycles, has its whole period ahead
C30_Witness ==
    /\ init_ret = "ok"
    /\ Armed
    /\ irq_line = 0
    /\ ~paw32xx_idle
    /\ paw32xx_idle_timer
    /\ idle_timer_fresh

\* C31: whenever the idle flag is set the interrupt is disabled, the poll
\* timer is not armed and no cycle is queued or running, also when the idle
\* timeout has fired during a cycle.
C31_IdleSuspendsEverything ==
    paw32xx_idle =>
        /\ ~irq_enabled
        /\ ~motion_timer
        /\ motion_work = <<>>
        /\ w.pc = "none"

\* the value of the tick the last call reported, 0 when it reported none
EmittedTick == IF reports = <<>> THEN 0 ELSE reports[1].value

\* C32: a process_scroll_input call whose add does not clamp leaves the
\* accumulator at before + delta - threshold * emitted tick (0 when no tick
\* is emitted), and over a sequence of calls without clamping the sum of
\* the deltas equals the sum of threshold * tick plus the change of the
\* accumulator.
C32_ScrollConservation ==
    /\ (scr.n > 0 /\ scr.added = scr.before + scr.delta) =>
           scroll_accumulator =
               scr.before + scr.delta - scr.threshold * EmittedTick
    /\ (scr.n > 0 /\ ~scr.clamped) =>
           scr.fed = scr.paid + (scroll_accumulator - scr.start)

\* two calls without clamping, the first leaving a remainder and the second
\* reporting a tick
C32_Witness ==
    /\ scr.n = 2
    /\ ~scr.clamped
    /\ scr.start = 4
    /\ scr.before = 8
    /\ scr.delta = 4
    /\ scr.threshold = 10
    /\ EmittedTick = 1
    /\ scroll_accumulator = 2

\* C33: on an initialised device whose idle flag is clear, with no cycle
\* queued or running and the poll timer not armed, the motion interrupt is
\* enabled.
C33_AlwaysATrigger ==
    (/\ init_ret = "ok"
     /\ ~paw32xx_idle
     /\ motion_work = <<>>
     /\ w.pc = "none"
     /\ ~motion_timer) => irq_enabled

\* a chain of cycles has run and ended: only the interrupt can start the
\* next cycle, and it is enabled
C33_Witness ==
    /\ init_ret = "ok"
    /\ ~paw32xx_idle
    /\ motion_work = <<>>
    /\ w.pc = "none"
    /\ ~motion_timer
    /\ current_cpi # -1
    /\ irq_enabled

\* C34: a cycle resolves the input mode once, and the CPI it asked for and
\* the branch it dispatches both belong to that one value, whatever the
\* stored mode has become through key presses during the cycle.
C34_OneModePerCycle ==
    [][DispatchStep =>
         /\ cyc.resolved = 1
         /\ cyc.cpi_target = target_cpi(cfg, w.input_mode)
         /\ LET d == dispatch(cfg, w.input_mode, w.x, w.y, w.scroll_y,
                              scroll_accumulator, scroll_accumulator_x,
                              scroll_accumulator_y)
            IN  /\ reports' = d.events
                /\ scroll_accumulator' = d.acc
                /\ scroll_accumulator_x' = d.acc_x
                /\ scroll_accumulator_y' = d.acc_y]_vars

\* a cycle resolved SNIPE, asked for the snipe CPI and reported the divided
\* deltas, while a key press during the cycle has put the stored mode back
\* to MOVE
C34_Witness ==
    /\ Dispatched
    /\ cfg.switch_method = PAW32XX_SWITCH_TOGGLE
    /\ cyc.resolved = 1
    /\ w.input_mode = PAW32XX_SNIPE
    /\ current_mode = PAW32XX_MOVE
    /\ cyc.cpi_target = cfg.snipe_cpi
    /\ Len(reports) = 2
    /\ reports[1].value = -2



\* what the cycle and the interrupt and timer handlers work on
DriverState ==
    <<scroll_accumulator, scroll_accumulator_x, scroll_accumulator_y,
      current_cpi, paw32xx_idle, paw32xx_idle_timer, motion_timer,
      motion_work, irq_enabled, w, reports>>

\* C35: outside initialisation, a step that changes the stored mode (a
\* toggle) changes no scroll accumulator, not the cached CPI, the idle
\* flag, a timer, the queue or the interrupt enablement, and a step of the
\* cycle or of an interrupt or timer handler leaves the stored mode alone.
C35_ToggleFrame ==
    [][init_ret' = init_ret =>
         /\ current_mode' # current_mode => DriverState' = DriverState
         /\ DriverState' # DriverState => current_mode' = current_mode]_vars

\* a key press during a scroll cycle: the stored mode is MOVE again while
\* the cycle, the remainder in the accumulator and the cached CPI are as
\* they were
C35_Witness ==
    /\ cfg.switch_method = PAW32XX_SWITCH_TOGGLE
    /\ w.pc = "dispatch"
    /\ w.input_mode = PAW32XX_SCROLL_SNIPE
    /\ current_mode = PAW32XX_MOVE
    /\ scroll_accumulator # 0
    /\ current_cpi = cfg.res_cpi
    /\ paw32xx_idle_timer

PointerModes == {PAW32XX_MOVE, PAW32XX_SNIPE}

\* C36: a MOVE or SNIPE cycle changes no scroll accumulator; the
\* single-axis accumulator is changed by nothing but the dispatch of a
\* SCROLL, SCROLL_HORIZONTAL, SCROLL_SNIPE or SCROLL_HORIZONTAL_SNIPE cycle,
\* which starts from the value the previous such cycle left, whatever the
\* modes in between.
C36_SharedAccumulator ==
    [][/\ (DispatchStep /\ w.input_mode \in PointerModes) =>
            UNCHANGED <<scroll_accumulator, scroll_accumulator_x,
                        scroll_accumulator_y>>
       /\ ~(DispatchStep /\ w.input_mode \in SingleAxisScrollModes) =>
            UNCHANGED scroll_accumulator
       /\ (DispatchStep /\ w.input_mode \in SingleAxisScrollModes) =>
            scroll_accumulator' =
                process_scroll_input(
                    scroll_accumulator,
                    Fed(cfg, w.input_mode, w.scroll_y),
                    TickOf(cfg, w.input_mode),
                    w.input_mode \in HorizontalModes).acc]_vars

\* a SCROLL cycle that read 5 against a tick of 5 and is left with a
\* remainder of 1: it started from the 1 a SCROLL_SNIPE cycle left
C36_Witness ==
    /\ Dispatched
    /\ cfg.rotation = 0
    /\ w.input_mode = PAW32XX_SCROLL
    /\ w.y = 5
    /\ cfg.scroll_tick = 5
    /\ scroll_accumulator = 1
    /\ Len(reports) = 1

\* paw32xx_init has just run
InitRan == init_ret = "not_run" /\ init_ret' # "not_run"

\* C37: initialisation leaves the cached CPI at -1, the mode at MOVE and the
\* accumulator at 0; a cycle that reaches the CPI step with -1 cached (the
\* first one does) attempts a CPI-set; and the cached CPI changes only to
\* the target of a CPI-set that succeeded, a value within [608, 4826].
C37_CpiCacheSentinel ==
    [][/\ InitRan => /\ current_cpi' = -1
                      /\ current_mode' = PAW32XX_MOVE
                      /\ scroll_accumulator' = 0
       /\ (CpiStep /\ current_cpi = -1) => cyc'.cpi_rc # "none"
       /\ (~InitRan /\ current_cpi' # current_cpi) =>
              /\ CpiStep
              /\ cyc'.cpi_rc = "0"
              /\ current_cpi' = cyc'.cpi_target
              /\ current_cpi' \in 608 .. 4826]_vars

\* C38: the idle timer is armed only once paw32xx_idle_dev has been
\* assigned, so paw32xx_idle_timeout_handler never runs, and the idle flag
\* is never set, while the device reference is unset.
C38_IdleDevSetBeforeTimeout ==
    [][/\ paw32xx_idle_timer' => paw32xx_idle_dev'
       /\ IdleExpiry => paw32xx_idle_dev
       /\ paw32xx_idle' => paw32xx_idle_dev']_vars

\* the timeout handler has run, on a device reference that was set
C38_Witness ==
    /\ paw32xx_idle
    /\ ~paw32xx_idle_timer
    /\ paw32xx_idle_dev
    /\ ~irq_enabled
    /\ w.pc = "none"

\* C39: for every threshold from 0 to 255, a process_scroll_input call
\* reports no tick when the accumulator after the add is 0, and a reported
\* tick is +1 when that accumulator is positive and -1 when it is negative.
C39_TickSign ==
    scr.n > 0 =>
        /\ scr.added = 0 => reports = <<>>
        /\ (reports # <<>> /\ scr.added > 0) => EmittedTick = 1
        /\ (reports # <<>> /\ scr.added < 0) => EmittedTick = -1

====
